---- MODULE Spec2Model ----
(***************************************************************************)
(* dbt-decodable: the SQL type-name parser (decodable/client/types.py),    *)
(* its equality and hashing, as a state machine over calls of the library. *)
(*                                                                         *)
(* Texts are TLA+ strings; Len, SubSeq and \o act on them character by     *)
(* character.  A type node is a record whose cls field is the name of its  *)
(* Python class and whose other fields are the dataclass's init fields;    *)
(* the fields the dataclasses derive in __post_init__ (synonyms,           *)
(* internal_types, container_type) are the operators Synonyms,             *)
(* InternalTypes and ContainerType.                                        *)
(***************************************************************************)
EXTENDS Integers, Sequences, FiniteSets, TLC

VARIABLES
    op,      \* the library call made: "init" before any
    kind,    \* for a from_str call: how the caller's text was formed
    texts,   \* the texts given to from_str, in call order
    a, b,    \* the nodes the call constructed or parsed
    found,   \* what FieldType.from_str returned for the last text
    eq,      \* [ab |-> a == b, ba |-> b == a]
    hashes,  \* <<hash(a), hash(b)>>
    args,    \* the arguments of a call into schema.py, impl.py or handler.py
    ret,     \* its outcome: the value returned or the exception raised
    pc,      \* where the generator exponential_backoff stands
    backoff, total_time,  \* its locals, in milliseconds
    yields,  \* the elapsed times it has yielded, in order
    sleeps,  \* the times it has slept, in order
    staggers,     \* what randint gave it before each sleep
    cursor,       \* where DecodableCursor.execute stands
    response,     \* its local response: the last PreviewResponse received
    append_stream, \* its local append_stream
    last_result,  \* the cursor's last_result
    polls,        \* the run_preview calls made, each with what it received
    fetched,      \* what the calls of fetchall returned, in call order
    streams,      \* the streams the service holds, in the order it lists them
    pipelines,    \* the pipelines the service holds, in the order it lists them
    cache,        \* the names in dbt's relation cache
    stack,        \* the frames of the adapter's running calls
    requests      \* the client requests made for an id, in order

vars == <<op, kind, texts, a, b, found, eq, hashes, args, ret,
          pc, backoff, total_time, yields, sleeps, staggers,
          cursor, response, append_stream, last_result, polls, fetched,
          streams, pipelines, cache, stack, requests>>

----------------------------------------------------------------------------
(* Bounds of the model and constants of the program. *)

\* Parameters (lengths, precisions, scales) are drawn from 0..MaxParam,
\* besides the program's own defaults below.
MaxParam == 2

\* Free-form inputs of from_str are concatenations of at most MaxFragments
\* fragments of type text.
MaxFragments == 3

\* Depth of nested FieldType.from_str calls the interpreter allows before it
\* raises RecursionError (Python's recursion limit, scaled to the inputs).
MaxCallDepth == 12

\* A schema has at most MaxFields fields.
MaxFields == 2

\* The timeout of exponential_backoff is at most MaxTimeout seconds and
\* some milliseconds.
MaxTimeout == 7

\* exponential_backoff: epsilon = 0.001, backoff = 1.0, randint(0, 1000),
\* in milliseconds
Epsilon == 1
InitialBackoff == 1000
MaxStagger == 1000

\* String.length / Bytes.length
StringLength == 2147483647

\* Decimal.precision, Decimal.scale
DefaultPrecision == 10
DefaultScale == 0

----------------------------------------------------------------------------
(* Python str, int() and re.fullmatch primitives. *)

DigitChars == <<"0", "1", "2", "3", "4", "5", "6", "7", "8", "9">>

CharAt(s, i) == SubSeq(s, i, i)

IsDigit(c) == \E i \in 1..10 : DigitChars[i] = c

\* \d+ : one or more digits
IsDigits(s) == Len(s) >= 1 /\ \A i \in 1..Len(s) : IsDigit(CharAt(s, i))

\* .* : any characters but a line break
NoNewline(s) == \A i \in 1..Len(s) : CharAt(s, i) # "\n"

StartsWith(s, p) == Len(s) >= Len(p) /\ SubSeq(s, 1, Len(p)) = p

EndsWith(s, p) == Len(s) >= Len(p) /\ SubSeq(s, Len(s) - Len(p) + 1, Len(s)) = p

\* int(digits): leading zeros are accepted
RECURSIVE StrToInt(_)
StrToInt(s) ==
    IF Len(s) = 0 THEN 0
    ELSE 10 * StrToInt(SubSeq(s, 1, Len(s) - 1))
         + ((CHOOSE i \in 1..10 : DigitChars[i] = CharAt(s, Len(s))) - 1)

\* f"{n}" of a non-negative int
RECURSIVE IntToStr(_)
IntToStr(n) ==
    IF n < 10 THEN DigitChars[n + 1]
    ELSE IntToStr(n \div 10) \o DigitChars[(n % 10) + 1]

NoMatch == [ok |-> FALSE]

\* MatchParam with re.match in place of re.fullmatch: the pattern need only
\* match a prefix of s
MatchParamPrefix(kw, s) ==
    LET k == Len(kw)
        ends == {j \in (k + 3)..Len(s) :
                    CharAt(s, j) = ")" /\ IsDigits(SubSeq(s, k + 2, j - 1))}
    IN  IF StartsWith(s, kw \o "(") /\ ends # {}
        THEN [ok |-> TRUE, inner |-> SubSeq(s, k + 2, (CHOOSE j \in ends : TRUE) - 1)]
        ELSE NoMatch

\* re.fullmatch(r"KW\((?P<inner>\d+)\)", s)
MatchParam(kw, s) ==
    LET n == Len(s)
        k == Len(kw)
    IN  IF /\ n >= k + 3
           /\ SubSeq(s, 1, k + 1) = kw \o "("
           /\ CharAt(s, n) = ")"
           /\ IsDigits(SubSeq(s, k + 2, n - 1))
        THEN [ok |-> TRUE, inner |-> SubSeq(s, k + 2, n - 1)]
        ELSE NoMatch

\* re.fullmatch(r"KW(\((?P<precision>\d+)(, (?P<scale>\d+))?\))?", s); a group
\* that took no part in the match is "" (falsy, as None is)
MatchExact(kw, s) ==
    LET n == Len(s)
        k == Len(kw)
        body == SubSeq(s, k + 2, n - 1)
        cuts == {i \in 1..(Len(body) - 3) :
                    /\ IsDigits(SubSeq(body, 1, i))
                    /\ SubSeq(body, i + 1, i + 2) = ", "
                    /\ IsDigits(SubSeq(body, i + 3, Len(body)))}
    IN  IF s = kw THEN [ok |-> TRUE, precision |-> "", scale |-> ""]
        ELSE IF ~(n >= k + 3 /\ SubSeq(s, 1, k + 1) = kw \o "(" /\ CharAt(s, n) = ")")
        THEN NoMatch
        ELSE IF IsDigits(body) THEN [ok |-> TRUE, precision |-> body, scale |-> ""]
        ELSE IF cuts # {}
        THEN LET i == CHOOSE j \in cuts : TRUE
             IN  [ok |-> TRUE, precision |-> SubSeq(body, 1, i),
                  scale |-> SubSeq(body, i + 3, Len(body))]
        ELSE NoMatch

\* re.fullmatch(r"TIMESTAMP\((?P<precision>\d+)\)(?P<timezone_clause>
\*              (?P<with_clause>WITH|WITHOUT) TIME ZONE)?", s)
MatchTimestamp(s) ==
    LET n == Len(s)
        ends == {j \in 11..n :
                    /\ IsDigits(SubSeq(s, 11, j - 1))
                    /\ CharAt(s, j) = ")"
                    /\ SubSeq(s, j + 1, n) \in
                         {"", " WITH TIME ZONE", " WITHOUT TIME ZONE"}}
    IN  IF StartsWith(s, "TIMESTAMP(") /\ ends # {}
        THEN LET j == CHOOSE e \in ends : TRUE
                 clause == SubSeq(s, j + 1, n)
             IN  [ok |-> TRUE, precision |-> SubSeq(s, 11, j - 1),
                  timezone_clause |-> clause,
                  with_clause |-> IF clause = " WITH TIME ZONE" THEN "WITH"
                                  ELSE IF clause = "" THEN "" ELSE "WITHOUT"]
        ELSE NoMatch

\* MatchNotNull with the suffix optional, r"(?P<inner>.*)( NOT NULL)?": the
\* greedy inner group takes the whole text
MatchNotNullOptional(s) ==
    IF NoNewline(s) THEN [ok |-> TRUE, inner |-> s] ELSE NoMatch

\* re.fullmatch(r"(?P<inner>.*) NOT NULL", s)
MatchNotNull(s) ==
    LET inner == SubSeq(s, 1, Len(s) - 9)
    IN  IF EndsWith(s, " NOT NULL") /\ NoNewline(inner)
        THEN [ok |-> TRUE, inner |-> inner]
        ELSE NoMatch

\* re.fullmatch(r"ARRAY<(?P<inner>.*)>", s)
MatchArray(s) ==
    LET inner == SubSeq(s, 7, Len(s) - 1)
    IN  IF Len(s) >= 7 /\ StartsWith(s, "ARRAY<") /\ EndsWith(s, ">") /\ NoNewline(inner)
        THEN [ok |-> TRUE, inner |-> inner]
        ELSE NoMatch

\* re.fullmatch(r"(?P<inner>.*) ARRAY", s)
MatchTArray(s) ==
    LET inner == SubSeq(s, 1, Len(s) - 6)
    IN  IF EndsWith(s, " ARRAY") /\ NoNewline(inner)
        THEN [ok |-> TRUE, inner |-> inner]
        ELSE NoMatch

\* The start of the separator ", " the greedy key group of MatchMap stops at:
\* the last one in the text between "MAP<" and the closing ">".
LastSeparator(m) ==
    LET at == {i \in 1..(Len(m) - 1) : SubSeq(m, i, i + 1) = ", "}
    IN  IF at = {} THEN 0 ELSE CHOOSE i \in at : \A j \in at : j <= i

\* re.fullmatch(r"MAP<(?P<key>.*), (?P<value>.*)>", s)
MatchMap(s) ==
    LET m == SubSeq(s, 5, Len(s) - 1)
        i == LastSeparator(m)
    IN  IF Len(s) >= 7 /\ StartsWith(s, "MAP<") /\ EndsWith(s, ">")
           /\ NoNewline(m) /\ i > 0
        THEN [ok |-> TRUE, key |-> SubSeq(m, 1, i - 1),
              value |-> SubSeq(m, i + 2, Len(m))]
        ELSE NoMatch

----------------------------------------------------------------------------
(* Type nodes: the dataclasses' constructors, with is_synonym defaulted. *)

None == [cls |-> "None"]

\* The exception a from_str call ends with when the interpreter's call depth
\* runs out.
RecursionError == [cls |-> "RecursionError"]

Sized(cls, length, is_synonym) ==
    [cls |-> cls, length |-> length, is_synonym |-> is_synonym]

Char(length) == Sized("Char", length, FALSE)
Varchar(length) == Sized("Varchar", length, FALSE)
String == Sized("String", StringLength, FALSE)
Binary(length) == Sized("Binary", length, FALSE)
Varbinary(length) == Sized("Varbinary", length, FALSE)
Bytes == Sized("Bytes", StringLength, FALSE)

Exact(cls, precision, scale, is_synonym) ==
    [cls |-> cls, precision |-> precision, scale |-> scale, is_synonym |-> is_synonym]

Decimal(precision, scale) == Exact("Decimal", precision, scale, FALSE)
Dec(precision, scale) == Exact("Dec", precision, scale, FALSE)
Numeric(precision, scale) == Exact("Numeric", precision, scale, FALSE)

\* TinyInt, SmallInt, Int, BigInt, Date, Boolean, Interval, Multiset
Plain(cls) == [cls |-> cls]

Approx(cls, is_synonym) == [cls |-> cls, is_synonym |-> is_synonym]

Float == Approx("Float", FALSE)
Double == Approx("Double", FALSE)

Time(precision) == [cls |-> "Time", precision |-> precision]

Stamp(cls, precision, timezone, is_synonym) ==
    [cls |-> cls, precision |-> precision, timezone |-> timezone,
     is_synonym |-> is_synonym]

Timestamp(precision, timezone) == Stamp("Timestamp", precision, timezone, FALSE)
TimestampLocal(precision) == Stamp("TimestampLocal", precision, TRUE, FALSE)

NotNull(inner_type) == [cls |-> "NotNull", inner_type |-> inner_type]
PrimaryKey(inner_type) == [cls |-> "PrimaryKey", inner_type |-> inner_type]
Array(type) == [cls |-> "Array", type |-> type]
TArray(type) == [cls |-> "TArray", type |-> type]
Map(key, value) == [cls |-> "Map", key |-> key, value |-> value]

\* issubclass(o.__class__, CompoundType)
IsCompound(o) == o.cls \in {"Array", "TArray", "Map"}

\* issubclass(o.__class__, FieldType)
IsFieldType(o) == o.cls \notin {"None", "RecursionError"}

\* CompoundType.container_type, set by the subclass's field default
ContainerType(o) == IF o.cls = "Map" THEN "MAP" ELSE "ARRAY"

\* CompoundType.internal_types, filled by __post_init__
InternalTypes(o) == IF o.cls = "Map" THEN <<o.key, o.value>> ELSE <<o.type>>

----------------------------------------------------------------------------
(* __repr__: the display form. *)

RECURSIVE Repr(_)
Repr(o) ==
    CASE o.cls = "NotNull" -> Repr(o.inner_type) \o " NOT NULL"
      [] o.cls = "PrimaryKey" -> Repr(o.inner_type) \o " PRIMARY KEY"
      [] o.cls = "Char" -> "CHAR(" \o IntToStr(o.length) \o ")"
      [] o.cls = "Varchar" -> "VARCHAR(" \o IntToStr(o.length) \o ")"
      [] o.cls = "String" -> "STRING"
      [] o.cls = "Binary" -> "BINARY(" \o IntToStr(o.length) \o ")"
      [] o.cls = "Varbinary" -> "VARBINARY(" \o IntToStr(o.length) \o ")"
      [] o.cls = "Bytes" -> "BYTES"
      [] o.cls = "Decimal" ->
            "DECIMAL(" \o IntToStr(o.precision) \o ", " \o IntToStr(o.scale) \o ")"
      [] o.cls = "Dec" ->
            "DEC(" \o IntToStr(o.precision) \o ", " \o IntToStr(o.scale) \o ")"
      [] o.cls = "Numeric" ->
            "NUMERIC(" \o IntToStr(o.precision) \o ", " \o IntToStr(o.scale) \o ")"
      [] o.cls = "TinyInt" -> "TINYINT"
      [] o.cls = "SmallInt" -> "SMALLINT"
      [] o.cls = "Int" -> "INT"
      [] o.cls = "BigInt" -> "BIGINT"
      [] o.cls = "Float" -> "FLOAT"
      [] o.cls = "Double" -> "DOUBLE"
      [] o.cls = "Date" -> "DATE"
      [] o.cls = "Time" -> "TIME(" \o IntToStr(o.precision) \o ")"
      [] o.cls = "Timestamp" ->
            "TIMESTAMP(" \o IntToStr(o.precision) \o ") "
            \o (IF o.timezone THEN "WITH" ELSE "WITHOUT") \o " TIME ZONE"
      [] o.cls = "TimestampLocal" -> "TIMESTAMP_LTZ(" \o IntToStr(o.precision) \o ")"
      [] o.cls = "Array" -> "ARRAY<" \o Repr(o.type) \o ">"
      [] o.cls = "TArray" -> Repr(o.type) \o " ARRAY"
      [] o.cls = "Map" -> "MAP<" \o Repr(o.key) \o ", " \o Repr(o.value) \o ">"
      [] o.cls = "Boolean" -> "BOOLEAN"
      [] o.cls = "Interval" -> "INTERVAL"
      [] o.cls = "Multiset" -> "MULTISET"
      [] o.cls = "None" -> "None"

----------------------------------------------------------------------------
(* __post_init__: the synonyms a node registers when it is constructed. *)

\* SizedSynonyms without the test of the length
SizedSynonymsAnyLength(o, other) ==
    IF ~o.is_synonym THEN <<Sized(other, StringLength, TRUE)>> ELSE <<>>

\* Varchar / Varbinary: the unbounded spelling, for the maximal length only
SizedSynonyms(o, other) ==
    IF ~o.is_synonym /\ o.length = StringLength
    THEN <<Sized(other, StringLength, TRUE)>> ELSE <<>>

\* String / Bytes: the sized spelling of their own length
UnsizedSynonyms(o, other) ==
    IF ~o.is_synonym THEN <<Sized(other, o.length, TRUE)>> ELSE <<>>

\* ExactSynonyms with the scale left to its default
ExactSynonymsDefaultScale(o, first, second) ==
    IF ~o.is_synonym
    THEN <<Exact(first, o.precision, DefaultScale, TRUE),
           Exact(second, o.precision, DefaultScale, TRUE)>>
    ELSE <<>>

\* Decimal / Dec / Numeric: the two other spellings, same precision and scale
ExactSynonyms(o, first, second) ==
    IF ~o.is_synonym
    THEN <<Exact(first, o.precision, o.scale, TRUE),
           Exact(second, o.precision, o.scale, TRUE)>>
    ELSE <<>>

\* Float / Double
ApproxSynonyms(o, other) ==
    IF ~o.is_synonym THEN <<Approx(other, TRUE)>> ELSE <<>>

\* StampSynonyms without the test of the time zone
StampSynonymsAnyZone(o, other) ==
    IF ~o.is_synonym THEN <<Stamp(other, o.precision, TRUE, TRUE)>> ELSE <<>>

\* Timestamp / TimestampLocal: each other, when the timestamp has a time zone
StampSynonyms(o, other) ==
    IF ~o.is_synonym /\ o.timezone
    THEN <<Stamp(other, o.precision, TRUE, TRUE)>> ELSE <<>>

\* FieldType.synonyms after construction
Synonyms(o) ==
    CASE o.cls = "Varchar" -> SizedSynonyms(o, "String")
      [] o.cls = "String" -> UnsizedSynonyms(o, "Varchar")
      [] o.cls = "Varbinary" -> SizedSynonyms(o, "Bytes")
      [] o.cls = "Bytes" -> UnsizedSynonyms(o, "Varbinary")
      [] o.cls = "Decimal" -> ExactSynonyms(o, "Dec", "Numeric")
      [] o.cls = "Dec" -> ExactSynonyms(o, "Decimal", "Numeric")
      [] o.cls = "Numeric" -> ExactSynonyms(o, "Dec", "Decimal")
      [] o.cls = "Float" -> ApproxSynonyms(o, "Double")
      [] o.cls = "Double" -> ApproxSynonyms(o, "Float")
      [] o.cls = "Timestamp" -> StampSynonyms(o, "TimestampLocal")
      [] o.cls = "TimestampLocal" -> StampSynonyms(o, "Timestamp")
      [] OTHER -> <<>>

----------------------------------------------------------------------------
(* __eq__ and __hash__. *)

RECURSIVE Eq(_, _)

\* FieldType.__eq__; `o in self.synonyms` compares each list item with o
FieldTypeEq(self, o) ==
    IF ~IsFieldType(o) THEN FALSE
    ELSE IF \E i \in 1..Len(Synonyms(self)) : Eq(Synonyms(self)[i], o) THEN TRUE
    ELSE Repr(self) = Repr(o)

\* NotNull without its own __eq__: the inherited comparison of display forms
NotNullEqInherited(self, o) == FieldTypeEq(self, o)

\* NotNull.__eq__
NotNullEq(self, o) ==
    IF o.cls # "NotNull" THEN FALSE
    ELSE Eq(self.inner_type, o.inner_type)

\* list.__eq__ of two internal_types lists
ListEq(xs, ys) ==
    Len(xs) = Len(ys) /\ \A i \in 1..Len(xs) : Eq(xs[i], ys[i])

\* CompoundType without its own __eq__: the inherited comparison of display forms
CompoundTypeEqInherited(self, o) == FieldTypeEq(self, o)

\* CompoundType.__eq__
CompoundTypeEq(self, o) ==
    IF ~IsCompound(o) THEN FALSE
    ELSE /\ ContainerType(self) = ContainerType(o)
         /\ ListEq(InternalTypes(self), InternalTypes(o))

\* self == o: the __eq__ of self's class
Eq(self, o) ==
    IF self.cls = "NotNull" THEN NotNullEq(self, o)
    ELSE IF IsCompound(self) THEN CompoundTypeEq(self, o)
    ELSE FieldTypeEq(self, o)

\* hash() of a str: a function of the characters alone, taken without collisions
StrHash(s) == <<"hash", s>>

\* FieldType.__hash__, which NotNull and CompoundType call through super()
Hash(self) == StrHash(Repr(self))

----------------------------------------------------------------------------
(* from_str: the candidates of each class, tried in order. *)

\* `for candidate in candidates: found = candidate.from_str(type); if found:
\* break`: the first result that is not None, or None
FirstFound(results) ==
    LET hits == {i \in 1..Len(results) : results[i] # None}
    IN  IF hits = {} THEN None
        ELSE results[CHOOSE i \in hits : \A j \in hits : i <= j]

\* from_str of a class whose pattern is its keyword alone
KeywordFromStr(kw, node, type) == IF type = kw THEN node ELSE None

\* Char / Varchar / Binary / Varbinary .from_str
SizedFromStr(kw, cls, type) ==
    LET m == MatchParam(kw, type)
    IN  IF ~m.ok THEN None ELSE Sized(cls, StrToInt(m.inner), FALSE)

StringTypeFromStr(type) ==
    FirstFound(<<SizedFromStr("CHAR", "Char", type),
                 SizedFromStr("VARCHAR", "Varchar", type),
                 KeywordFromStr("STRING", String, type)>>)

BinaryTypeFromStr(type) ==
    FirstFound(<<SizedFromStr("BINARY", "Binary", type),
                 SizedFromStr("VARBINARY", "Varbinary", type),
                 KeywordFromStr("BYTES", Bytes, type)>>)

\* Decimal / Dec / Numeric .from_str
\* ExactFromStr that falls back to both defaults when the scale is left out
ExactFromStrNoPrecision(kw, cls, type) ==
    LET m == MatchExact(kw, type)
    IN  IF ~m.ok THEN None
        ELSE IF m.precision = "" \/ m.scale = ""
        THEN Exact(cls, DefaultPrecision, DefaultScale, FALSE)
        ELSE Exact(cls, StrToInt(m.precision), StrToInt(m.scale), FALSE)

ExactFromStr(kw, cls, type) ==
    LET m == MatchExact(kw, type)
    IN  IF ~m.ok THEN None
        ELSE IF m.precision = "" THEN Exact(cls, DefaultPrecision, DefaultScale, FALSE)
        ELSE IF m.scale = "" THEN Exact(cls, StrToInt(m.precision), DefaultScale, FALSE)
        ELSE Exact(cls, StrToInt(m.precision), StrToInt(m.scale), FALSE)

ExactNumericTypeFromStr(type) ==
    FirstFound(<<ExactFromStr("DECIMAL", "Decimal", type),
                 ExactFromStr("DEC", "Dec", type),
                 ExactFromStr("NUMERIC", "Numeric", type)>>)

NumericTypeFromStr(type) ==
    FirstFound(<<ExactNumericTypeFromStr(type),
                 KeywordFromStr("TINYINT", Plain("TinyInt"), type),
                 KeywordFromStr("SMALLINT", Plain("SmallInt"), type),
                 KeywordFromStr("INT", Plain("Int"), type),
                 KeywordFromStr("BIGINT", Plain("BigInt"), type),
                 KeywordFromStr("FLOAT", Float, type),
                 KeywordFromStr("DOUBLE", Double, type)>>)

TimeFromStr(type) ==
    LET m == MatchParam("TIME", type)
    IN  IF ~m.ok THEN None ELSE Time(StrToInt(m.inner))

TimestampFromStr(type) ==
    LET m == MatchTimestamp(type)
    IN  IF ~m.ok THEN None
        ELSE Timestamp(StrToInt(m.precision),
                       IF m.timezone_clause = "" THEN FALSE
                       ELSE m.with_clause = "WITH")

TimestampLocalFromStr(type) ==
    LET m == MatchParam("TIMESTAMP_LTZ", type)
    IN  IF ~m.ok THEN None ELSE TimestampLocal(StrToInt(m.inner))

TimestampTypeFromStr(type) ==
    FirstFound(<<TimestampFromStr(type), TimestampLocalFromStr(type)>>)

DateTimeTypeFromStr(type) ==
    FirstFound(<<KeywordFromStr("DATE", Plain("Date"), type),
                 TimeFromStr(type),
                 TimestampTypeFromStr(type)>>)

\* FieldType.from_str(type) with `depth` nested calls still allowed
RECURSIVE FieldTypeFromStr(_, _)

\* The end of NotNull / Array / TArray .from_str, after the inner call
Wrapped(cls, inner_type) ==
    IF inner_type = None THEN None
    ELSE IF inner_type = RecursionError THEN RecursionError
    ELSE IF cls = "NotNull" THEN NotNull(inner_type)
    ELSE IF cls = "Array" THEN Array(inner_type)
    ELSE TArray(inner_type)

NotNullFromStr(type, depth) ==
    LET m == MatchNotNull(type)
    IN  IF ~m.ok THEN None
        ELSE Wrapped("NotNull", FieldTypeFromStr(m.inner, depth - 1))

ArrayFromStr(type, depth) ==
    LET m == MatchArray(type)
    IN  IF ~m.ok THEN None
        ELSE Wrapped("Array", FieldTypeFromStr(m.inner, depth - 1))

TArrayFromStr(type, depth) ==
    LET m == MatchTArray(type)
    IN  IF ~m.ok THEN None
        ELSE Wrapped("TArray", FieldTypeFromStr(m.inner, depth - 1))

ArrayTypeFromStr(type, depth) ==
    LET r == ArrayFromStr(type, depth)
    IN  IF r # None THEN r ELSE TArrayFromStr(type, depth)

MapFromStr(type, depth) ==
    LET m == MatchMap(type)
        key_type == FieldTypeFromStr(m.key, depth - 1)
        value_type == FieldTypeFromStr(m.value, depth - 1)
    IN  IF ~m.ok THEN None
        ELSE IF key_type = RecursionError THEN RecursionError
        ELSE IF value_type = RecursionError THEN RecursionError
        ELSE IF key_type = None \/ value_type = None THEN None
        ELSE Map(key_type, value_type)

\* Row.from_str
RowFromStr(type) == None

CompoundTypeFromStr(type, depth) ==
    LET r == ArrayTypeFromStr(type, depth)
        q == MapFromStr(type, depth)
    IN  IF r # None THEN r
        ELSE IF q # None THEN q
        ELSE RowFromStr(type)

FieldTypeFromStr(type, depth) ==
    IF depth = 0 THEN RecursionError
    ELSE LET n == NotNullFromStr(type, depth)
             l == FirstFound(<<StringTypeFromStr(type), BinaryTypeFromStr(type),
                               NumericTypeFromStr(type), DateTimeTypeFromStr(type)>>)
             c == CompoundTypeFromStr(type, depth)
         IN  IF n # None THEN n
             ELSE IF l # None THEN l
             ELSE IF c # None THEN c
             ELSE FirstFound(<<KeywordFromStr("BOOLEAN", Plain("Boolean"), type),
                               KeywordFromStr("INTERVAL", Plain("Interval"), type),
                               KeywordFromStr("MULTISET", Plain("Multiset"), type)>>)

\* FieldType.from_str, called from outside
FromStr(type) == FieldTypeFromStr(type, MaxCallDepth)

\* The arguments of the calls of FieldType.from_str that the from_str
\* methods matching `type` make
InnerTexts(type) ==
    (IF MatchNotNull(type).ok THEN {MatchNotNull(type).inner} ELSE {})
    \cup (IF MatchArray(type).ok THEN {MatchArray(type).inner} ELSE {})
    \cup (IF MatchTArray(type).ok THEN {MatchTArray(type).inner} ELSE {})
    \cup (IF MatchMap(type).ok THEN {MatchMap(type).key, MatchMap(type).value} ELSE {})

----------------------------------------------------------------------------
(* The callers' inputs: the nodes built with the public constructors and    *)
(* the texts handed to from_str.                                            *)

Lengths == 0..MaxParam \cup {StringLength}
Precisions == 0..MaxParam \cup {DefaultPrecision}
Scales == 0..MaxParam

ExactNodes ==
    {Exact(c, p, s, FALSE) : c \in {"Decimal", "Dec", "Numeric"}, p \in Precisions,
                             s \in Scales}

LeafNodes ==
    {Sized(c, n, FALSE) : c \in {"Char", "Varchar", "Binary", "Varbinary"}, n \in Lengths}
    \cup {String, Bytes, Float, Double}
    \cup ExactNodes
    \cup {Plain(c) : c \in {"TinyInt", "SmallInt", "Int", "BigInt", "Date", "Boolean",
                            "Interval", "Multiset"}}
    \cup {Time(p) : p \in Precisions}
    \cup {Timestamp(p, z) : p \in Precisions, z \in BOOLEAN}
    \cup {TimestampLocal(p) : p \in Precisions}

CoreLeaves ==
    {Decimal(DefaultPrecision, DefaultScale), Numeric(DefaultPrecision, DefaultScale),
     String, Bytes}

Wrap(S) == {NotNull(x) : x \in S} \cup {Array(x) : x \in S} \cup {TArray(x) : x \in S}

Maps(K, V) == {Map(k, v) : k \in K, v \in V}

Level1 == Wrap(CoreLeaves) \cup Maps(CoreLeaves, CoreLeaves)

Level1Exact ==
    Wrap({Decimal(DefaultPrecision, DefaultScale), Numeric(DefaultPrecision, DefaultScale)})

Level2 ==
    Wrap(Level1Exact) \cup Maps({String}, Level1Exact) \cup Maps(Level1Exact, {String})
    \cup Maps({String}, Maps({String}, {String, Bytes}))

\* The pairs compared: every two leaves, and every two of the nested nodes
ComparedNodes ==
    CoreLeaves \cup Level1 \cup Level2 \cup {PrimaryKey(x) : x \in CoreLeaves}
    \cup {NotNull(Array(Bytes)), NotNull(Array(String)), NotNull(Array(Plain("Boolean")))}

ComparedPairs == (LeafNodes \X LeafNodes) \cup (ComparedNodes \X ComparedNodes)

\* The nodes rendered and parsed back
RoundTripNodes ==
    LeafNodes \cup Wrap(LeafNodes) \cup Level1 \cup Level2
    \cup Maps({Plain("Int"), Char(1)}, LeafNodes)

\* Type texts from_str accepts, canonical or not
PairTexts ==
    {"CHAR(1)", "VARCHAR(1)", "VARCHAR(2147483647)", "STRING", "BINARY(1)",
     "VARBINARY(1)", "VARBINARY(2147483647)", "BYTES", "DECIMAL", "DEC", "NUMERIC",
     "DECIMAL(10)", "DEC(10, 0)", "NUMERIC(1, 2)", "DECIMAL(1, 2)", "DEC(2, 1)",
     "DECIMAL(001, 02)", "TINYINT", "SMALLINT", "INT", "BIGINT", "FLOAT", "DOUBLE",
     "DATE", "TIME(1)", "TIME(3)", "TIMESTAMP(1)", "TIMESTAMP(3)",
     "TIMESTAMP(3) WITH TIME ZONE", "TIMESTAMP(3) WITHOUT TIME ZONE",
     "TIMESTAMP(1) WITH TIME ZONE", "TIMESTAMP_LTZ(3)", "TIMESTAMP_LTZ(1)", "BOOLEAN",
     "INTERVAL", "MULTISET", "ARRAY<DECIMAL>", "DECIMAL ARRAY", "ARRAY<NUMERIC>",
     "ARRAY<STRING>", "MAP<STRING, INT>", "DECIMAL NOT NULL"}

\* The key and value texts of the maps parsed; "string" is no type text
MapPartTexts ==
    {"INT", "STRING", "CHAR(1)", "DECIMAL", "DECIMAL(10)", "DECIMAL(10, 2)",
     "NUMERIC(1, 0)", "INT NOT NULL", "INT ARRAY", "ARRAY<INT>", "MAP<INT, INT>",
     "TIMESTAMP(3) WITH TIME ZONE", "VARCHAR(2147483647)", "string"}

\* One text of each grammar rule, as <<before, keyword, after>>
RuleTexts ==
    {<<"", "CHAR", "(1)">>, <<"", "VARCHAR", "(10)">>, <<"", "STRING", "">>,
     <<"", "BINARY", "(1)">>, <<"", "VARBINARY", "(2)">>, <<"", "BYTES", "">>,
     <<"", "DECIMAL", "">>, <<"", "DECIMAL", "(10, 2)">>, <<"", "DEC", "(1)">>,
     <<"", "NUMERIC", "(1, 0)">>, <<"", "TINYINT", "">>, <<"", "SMALLINT", "">>,
     <<"", "INT", "">>, <<"", "BIGINT", "">>, <<"", "FLOAT", "">>, <<"", "DOUBLE", "">>,
     <<"", "DATE", "">>, <<"", "TIME", "(0)">>, <<"", "TIMESTAMP", "(3)">>,
     <<"TIMESTAMP(3) ", "WITH", " TIME ZONE">>,
     <<"TIMESTAMP(3) ", "WITHOUT", " TIME ZONE">>,
     <<"TIMESTAMP(3) WITH ", "TIME ZONE", "">>, <<"", "TIMESTAMP_LTZ", "(3)">>,
     <<"", "BOOLEAN", "">>, <<"", "INTERVAL", "">>, <<"", "MULTISET", "">>,
     <<"", "ARRAY", "<INT>">>, <<"INT ", "ARRAY", "">>, <<"", "MAP", "<INT, INT>">>,
     <<"INT ", "NOT NULL", "">>}

Keywords == {r[2] : r \in RuleTexts}

UpperChars == "ABCDEFGHIJKLMNOPQRSTUVWXYZ"
LowerChars == "abcdefghijklmnopqrstuvwxyz"

\* str.lower() of one character
LowerChar(c) ==
    IF \E i \in 1..Len(UpperChars) : CharAt(UpperChars, i) = c
    THEN CharAt(LowerChars, CHOOSE i \in 1..Len(UpperChars) : CharAt(UpperChars, i) = c)
    ELSE c

RECURSIVE LowerStr(_)
LowerStr(s) ==
    IF Len(s) = 0 THEN "" ELSE LowerChar(CharAt(s, 1)) \o LowerStr(SubSeq(s, 2, Len(s)))

LowerAt(s, i) ==
    SubSeq(s, 1, i - 1) \o LowerChar(CharAt(s, i)) \o SubSeq(s, i + 1, Len(s))

RECURSIVE RemoveDigits(_)
RemoveDigits(s) ==
    IF Len(s) = 0 THEN ""
    ELSE (IF IsDigit(CharAt(s, 1)) THEN "" ELSE CharAt(s, 1))
         \o RemoveDigits(SubSeq(s, 2, Len(s)))

PadChars == {" ", "x", "\n", "(", ")", "<", ">", ","}

ValidTexts == {r[1] \o r[2] \o r[3] : r \in RuleTexts}

\* the keyword cut short, where what is left is no keyword itself
TruncatedTexts ==
    UNION {{r[1] \o SubSeq(r[2], 1, j) \o r[3] :
               j \in {i \in 0..(Len(r[2]) - 1) : SubSeq(r[2], 1, i) \notin Keywords}} :
           r \in RuleTexts}

\* the keyword with one letter, the letters after the first, or all in lower case
CaseTexts ==
    UNION {{r[1] \o LowerAt(r[2], i) \o r[3] :
               i \in {j \in 1..Len(r[2]) : LowerChar(CharAt(r[2], j)) # CharAt(r[2], j)}} :
           r \in RuleTexts}
    \cup {r[1] \o LowerStr(r[2]) \o r[3] : r \in RuleTexts}
    \cup {r[1] \o CharAt(r[2], 1) \o LowerStr(SubSeq(r[2], 2, Len(r[2]))) \o r[3] :
            r \in RuleTexts}

\* a parameterised rule without its digits
NoDigitsTexts ==
    {r[1] \o r[2] \o RemoveDigits(r[3]) : r \in {q \in RuleTexts : StartsWith(q[3], "(")}}
    \cup {"CHAR()", "DECIMAL(10, )", "DECIMAL(, 2)", "TIMESTAMP()", "TIMESTAMP_LTZ()"}

\* a valid text with one more character before or after it
PaddedTexts ==
    {c \o t : c \in PadChars, t \in ValidTexts} \cup {t \o c : c \in PadChars, t \in ValidTexts}

Fragments ==
    {"INT", "DECIMAL", "(10, 2)", " NOT NULL", " ARRAY", "ARRAY<", ">", "MAP<", ", ",
     "MAP<INT, ", "\n", "x"}

RECURSIVE Concats(_)
Concats(n) ==
    IF n = 0 THEN {""} ELSE {f \o t : f \in Fragments \cup {""}, t \in Concats(n - 1)}

FromStrInputs ==
    ({"valid"} \X ValidTexts) \cup ({"truncated"} \X TruncatedTexts)
    \cup ({"case"} \X CaseTexts) \cup ({"nodigits"} \X NoDigitsTexts)
    \cup ({"padded"} \X PaddedTexts) \cup ({"free"} \X Concats(MaxFragments))

----------------------------------------------------------------------------
(* decodable/client/schema.py.  A Python dict is the sequence of its        *)
(* <<key, value>> items in insertion order; a call's outcome is the value  *)
(* it returns or the exception it raises.                                  *)

Raise(error, message) == [raised |-> TRUE, error |-> error, message |-> message]
Return(value) == [raised |-> FALSE, value |-> value]

\* key in d
Has(d, key) == \E i \in 1..Len(d) : d[i][1] = key

\* d[key], for a key of d
Get(d, key) == d[CHOOSE i \in 1..Len(d) : d[i][1] = key][2]

\* a Python list where None may stand instead
List(items) == [cls |-> "list", items |-> items]

\* get_field_type that hands from_str's None on
GetFieldTypeSilent(type_) == Return(FromStr(type_))

\* SchemaField.get_field_type; raise_compiler_error raises dbt's
\* CompilationError with the message
GetFieldType(type_) ==
    LET Checked(field_type) ==
            IF field_type = None
            THEN Raise("CompilationError", "Type '" \o type_ \o "' not recognized")
            ELSE Return(field_type)
    IN  Checked(FromStr(type_))

PhysicalSchemaField(name, type) ==
    [cls |-> "PhysicalSchemaField", name |-> name, kind |-> "physical", type |-> type]

MetadataSchemaField(name, key, type) ==
    [cls |-> "MetadataSchemaField", name |-> name, kind |-> "metadata", key |-> key,
     type |-> type]

ComputedSchemaField(name, expression) ==
    [cls |-> "ComputedSchemaField", name |-> name, kind |-> "computed",
     expression |-> expression]

\* PhysicalSchemaField.get
PhysicalGet(name, type) ==
    LET Made(t) == IF t.raised THEN t ELSE Return(PhysicalSchemaField(name, t.value))
    IN  Made(GetFieldType(type))

\* MetadataSchemaField.get
MetadataGet(name, key, type) ==
    LET Made(t) == IF t.raised THEN t ELSE Return(MetadataSchemaField(name, key, t.value))
    IN  Made(GetFieldType(type))

\* ComputedSchemaField.get
ComputedGet(name, expression) == Return(ComputedSchemaField(name, expression))

\* the first of the keys that d lacks, as the KeyError d[key] raises
MissingKey(d, keys) ==
    LET lacks == {i \in 1..Len(keys) : ~Has(d, keys[i])}
    IN  Raise("KeyError", keys[CHOOSE i \in lacks : \A j \in lacks : i <= j])

\* schema_field_factory that takes any kind it does not know for physical
SchemaFieldFactoryLenient(field) ==
    IF ~Has(field, "kind") THEN MissingKey(field, <<"kind">>)
    ELSE IF Get(field, "kind") = "metadata"
    THEN IF \A k \in {"name", "key", "type"} : Has(field, k)
         THEN MetadataGet(Get(field, "name"), Get(field, "key"), Get(field, "type"))
         ELSE MissingKey(field, <<"name", "key", "type">>)
    ELSE IF Get(field, "kind") = "computed"
    THEN IF \A k \in {"name", "expression"} : Has(field, k)
         THEN ComputedGet(Get(field, "name"), Get(field, "expression"))
         ELSE MissingKey(field, <<"name", "expression">>)
    ELSE IF \A k \in {"name", "type"} : Has(field, k)
         THEN PhysicalGet(Get(field, "name"), Get(field, "type"))
         ELSE MissingKey(field, <<"name", "type">>)

\* schema_field_factory
SchemaFieldFactory(field) ==
    IF ~Has(field, "kind") THEN MissingKey(field, <<"kind">>)
    ELSE IF Get(field, "kind") = "physical"
    THEN IF \A k \in {"name", "type"} : Has(field, k)
         THEN PhysicalGet(Get(field, "name"), Get(field, "type"))
         ELSE MissingKey(field, <<"name", "type">>)
    ELSE IF Get(field, "kind") = "metadata"
    THEN IF \A k \in {"name", "key", "type"} : Has(field, k)
         THEN MetadataGet(Get(field, "name"), Get(field, "key"), Get(field, "type"))
         ELSE MissingKey(field, <<"name", "key", "type">>)
    ELSE IF Get(field, "kind") = "computed"
    THEN IF \A k \in {"name", "expression"} : Has(field, k)
         THEN ComputedGet(Get(field, "name"), Get(field, "expression"))
         ELSE MissingKey(field, <<"name", "expression">>)
    ELSE Raise("ValueError", "Unknown field kind: " \o Get(field, "kind"))

Watermark(name, expression) == [name |-> name, expression |-> expression]

Constraints(primary_key) == [primary_key |-> primary_key]

SchemaV2(fields, watermarks, constraints) ==
    [cls |-> "SchemaV2", fields |-> fields, watermarks |-> watermarks,
     constraints |-> constraints]

\* the least index of a non-empty set of indices
First(indices) == CHOOSE i \in indices : \A j \in indices : i <= j

\* SchemaV2.from_json: the fields in order (the first exception leaves the
\* call), then the watermarks, then constraints.get('primary_key'), None
\* when there is none
SchemaV2FromJson(json) ==
    LET fields == IF Has(json, "fields") THEN Get(json, "fields") ELSE <<>>
        watermarks == IF Has(json, "watermarks") THEN Get(json, "watermarks") ELSE <<>>
        lacking == {i \in 1..Len(watermarks) :
                        ~(Has(watermarks[i], "name") /\ Has(watermarks[i], "expression"))}
        constraints == IF Has(json, "constraints") THEN Get(json, "constraints") ELSE <<>>
        Built(made) ==
            IF \E i \in 1..Len(fields) : made[i].raised
            THEN made[First({i \in 1..Len(fields) : made[i].raised})]
            ELSE IF lacking # {}
            THEN MissingKey(watermarks[First(lacking)], <<"name", "expression">>)
            ELSE Return(SchemaV2(
                    [i \in 1..Len(fields) |-> made[i].value],
                    [i \in 1..Len(watermarks) |->
                        Watermark(Get(watermarks[i], "name"),
                                  Get(watermarks[i], "expression"))],
                    Constraints(IF Has(constraints, "primary_key")
                                THEN Get(constraints, "primary_key") ELSE None)))
    IN  Built([i \in 1..Len(fields) |-> SchemaFieldFactory(fields[i])])

\* to_dict in the order the subclass declares its fields: name, variant
\* keys, kind
SchemaFieldToDictDeclared(field) ==
    IF field.cls = "PhysicalSchemaField"
    THEN <<<<"name", field.name>>, <<"type", Repr(field.type)>>, <<"kind", field.kind>>>>
    ELSE IF field.cls = "MetadataSchemaField"
    THEN <<<<"name", field.name>>, <<"key", field.key>>, <<"type", Repr(field.type)>>,
           <<"kind", field.kind>>>>
    ELSE <<<<"name", field.name>>, <<"expression", field.expression>>,
           <<"kind", field.kind>>>>

\* SchemaField.to_dict: dataclasses.fields() keeps the base class's name,
\* kind first; a FieldType value is written as its repr
SchemaFieldToDict(field) ==
    IF field.cls = "PhysicalSchemaField"
    THEN <<<<"name", field.name>>, <<"kind", field.kind>>, <<"type", Repr(field.type)>>>>
    ELSE IF field.cls = "MetadataSchemaField"
    THEN <<<<"name", field.name>>, <<"kind", field.kind>>, <<"key", field.key>>,
           <<"type", Repr(field.type)>>>>
    ELSE <<<<"name", field.name>>, <<"kind", field.kind>>,
           <<"expression", field.expression>>>>

\* The __eq__ that @dataclass writes for a schema field class: the other is
\* of the same class, and the tuples of the fields are equal, the types by
\* FieldType.__eq__
FieldEq(self, other) ==
    /\ self.cls = other.cls
    /\ self.name = other.name
    /\ self.kind = other.kind
    /\ self.cls = "MetadataSchemaField" => self.key = other.key
    /\ self.cls = "ComputedSchemaField" => self.expression = other.expression
    /\ self.cls # "ComputedSchemaField" => Eq(self.type, other.type)

\* SchemaV2.to_dict
SchemaV2ToDict(self) ==
    <<<<"fields", [i \in 1..Len(self.fields) |-> SchemaFieldToDict(self.fields[i])]>>,
      <<"watermarks", [i \in 1..Len(self.watermarks) |->
            <<<<"name", self.watermarks[i].name>>,
              <<"expression", self.watermarks[i].expression>>>>]>>,
      <<"constraints", <<<<"primary_key", self.constraints.primary_key>>>>>>>>

\* json.dumps of a str: quotes around it, a backslash before " and \
RECURSIVE JsonEscape(_)
JsonEscape(s) ==
    IF s = "" THEN ""
    ELSE (IF CharAt(s, 1) \in {"\"", "\\"} THEN "\\" ELSE "")
         \o CharAt(s, 1) \o JsonEscape(SubSeq(s, 2, Len(s)))

JsonString(s) == "\"" \o JsonEscape(s) \o "\""

\* ", ".join(items)
RECURSIVE Join(_)
Join(items) ==
    IF Len(items) = 0 THEN ""
    ELSE IF Len(items) = 1 THEN items[1]
    ELSE items[1] \o ", " \o Join(Tail(items))

\* json.dumps of a dict of str, of a list of such dicts, of a list of str or
\* None
JsonStrDict(d) ==
    "{" \o Join([i \in 1..Len(d) |-> JsonString(d[i][1]) \o ": " \o JsonString(d[i][2])])
        \o "}"

JsonDictList(l) == "[" \o Join([i \in 1..Len(l) |-> JsonStrDict(l[i])]) \o "]"

JsonOptionalList(v) ==
    IF v = None THEN "null"
    ELSE "[" \o Join([i \in 1..Len(v.items) |-> JsonString(v.items[i])]) \o "]"

\* json.dumps(self.to_dict())
JsonDumps(d) ==
    "{" \o Join([i \in 1..Len(d) |->
            JsonString(d[i][1]) \o ": " \o
            (IF d[i][1] = "constraints"
             THEN "{" \o JsonString(d[i][2][1][1]) \o ": "
                      \o JsonOptionalList(d[i][2][1][2]) \o "}"
             ELSE JsonDictList(d[i][2]))]) \o "}"

\* SchemaV2.__hash__
SchemaV2Hash(self) == StrHash(JsonDumps(SchemaV2ToDict(self)))

\* SchemaV2.__eq__
SchemaV2Eq(self, other) ==
    /\ other.cls = "SchemaV2"
    /\ SchemaV2Hash(self) = SchemaV2Hash(other)

----------------------------------------------------------------------------
(* dbt/adapters/decodable/impl.py: DecodableAdapter.has_changed.  The       *)
(* adapter builds its schemas of decodable.client.client.SchemaField, a    *)
(* class client.py does not hold: it is modelled as the field value object *)
(* of the specification, a name and a type node, equal to another when the  *)
(* names are the same and the types are equal.  An Optional[str] is the    *)
(* sequence of at most one text.                                           *)

SchemaField(name, type) == [cls |-> "SchemaField", name |-> name, type |-> type]

SchemaFieldEq(self, other) == self.name = other.name /\ Eq(self.type, other.type)

\* list == list: the same length and every pair of items equal
SchemaListEq(self, other) ==
    /\ Len(self) = Len(other)
    /\ \A i \in 1..Len(self) : SchemaFieldEq(self[i], other[i])

\* _schema_from_json that leaves out the fields whose type it cannot parse
SchemaFromJsonSkipping(json) ==
    LET Kept(types) ==
            LET Parsed(field) == field.type # None
            IN  SelectSeq([i \in 1..Len(json) |-> SchemaField(json[i].name, types[i])],
                          Parsed)
    IN  Return(Kept([i \in 1..Len(json) |-> FromStr(json[i].type)]))

\* DecodableAdapter._schema_from_json: raises at the first field whose type
\* text from_str does not accept
SchemaFromJson(json) ==
    LET Checked(types) ==
            LET bad == {i \in 1..Len(json) : types[i] = None}
            IN  IF bad # {}
                THEN Raise("CompilationError",
                           "Type '" \o json[First(bad)].type \o "' not recognized")
                ELSE Return([i \in 1..Len(json) |-> SchemaField(json[i].name, types[i])])
    IN  Checked([i \in 1..Len(json) |-> FromStr(json[i].type)])

\* DecodableAdapter._wrap_as_pipeline
WrapAsPipeline(sink, sql) == "INSERT INTO " \o sink \o " " \o sql

\* the except clause of has_changed: the error of _schema_from_json raised
\* anew with the relation named before its text
Rewrapped(relation, err) ==
    Raise("CompilationError",
          "Error checking changes to the '" \o relation \o "' stream: " \o err.message)

\* has_changed that does not compare the watermarks
HasChangedNoWatermark(sql, relation, watermark, fields, pipeline, stream) ==
    LET new_pipe_sql == WrapAsPipeline(relation, sql)
        Decided(schema, existing_schema) ==
            IF schema.raised THEN Rewrapped(relation, schema)
            ELSE IF pipeline = None THEN Return(TRUE)
            ELSE IF stream = None THEN Return(TRUE)
            ELSE IF pipeline.sql # new_pipe_sql THEN Return(TRUE)
            ELSE IF existing_schema.raised THEN Rewrapped(relation, existing_schema)
            ELSE IF ~SchemaListEq(existing_schema.value, schema.value) THEN Return(TRUE)
            ELSE Return(FALSE)
    IN  Decided(SchemaFromJson(fields), SchemaFromJson(stream.schema))

\* DecodableAdapter.has_changed(sql, relation, watermark), where fields is
\* the schema the service plans for the SQL, and pipeline and stream are
\* what the service holds under the relation's name (None: nothing)
HasChanged(sql, relation, watermark, fields, pipeline, stream) ==
    LET new_pipe_sql == WrapAsPipeline(relation, sql)
        Decided(schema, existing_schema) ==
            IF schema.raised THEN Rewrapped(relation, schema)
            ELSE IF pipeline = None THEN Return(TRUE)
            ELSE IF stream = None THEN Return(TRUE)
            ELSE IF pipeline.sql # new_pipe_sql THEN Return(TRUE)
            ELSE IF stream.watermark # watermark THEN Return(TRUE)
            ELSE IF existing_schema.raised THEN Rewrapped(relation, existing_schema)
            ELSE IF ~SchemaListEq(existing_schema.value, schema.value) THEN Return(TRUE)
            ELSE Return(FALSE)
    IN  Decided(SchemaFromJson(fields), SchemaFromJson(stream.schema))

----------------------------------------------------------------------------
(* dbt/adapters/decodable/handler.py: exponential_backoff, with times in    *)
(* whole milliseconds.                                                     *)

Min(x, y) == IF x <= y THEN x ELSE y

\* the sleep time not cut to what is left of the budget
SleepTimeUncut(timeout, stagger) == backoff + stagger

\* time = min(backoff + stagger, timeout - total_time)
SleepTime(timeout, stagger) == Min(backoff + stagger, timeout - total_time)

----------------------------------------------------------------------------
(* dbt/adapters/decodable/handler.py: DecodableCursor.  A row and a change *)
(* are Python dicts; last_result is None or List(rows); the next_token of  *)
(* a response is an Optional[str].                                        *)

PreviewResponse(id, output_stream_type, results, next_token) ==
    [id |-> id, output_stream_type |-> output_stream_type, results |-> results,
     next_token |-> next_token]

\* the row seed_fake_results puts into last_result
FakeResult == <<<<"failures", 0>>, <<"should_warn", FALSE>>, <<"should_error", FALSE>>>>

\* list(d.values())
Values(d) == [i \in 1..Len(d) |-> d[i][2]]

\* list(d.keys())
Keys(d) == [i \in 1..Len(d) |-> d[i][1]]

\* a loop that no response ends
BreakNever(received) == FALSE

\* if response.next_token is None: break
Break(received) == received.next_token = <<>>

\* the loop body's update of last_result that keeps every change's image
CollectedEveryChange(append, collected, results) ==
    IF append THEN List(collected.items \o results)
    ELSE List(collected.items \o
              [i \in 1..Len(results) |-> Get(results[i], "after")])

\* the loop body's update of last_result by the results of one response
Collected(append, collected, results) ==
    IF append THEN List(collected.items \o results)
    ELSE IF results # <<>>
    THEN IF Get(results[Len(results)], "after") = <<>>
         THEN List(<<>>)
         ELSE List(<<Get(results[Len(results)], "after")>>)
    ELSE collected

\* the end of execute that leaves last_result as it was collected
Unseeded(collected) == collected

\* the end of execute: seed_fake_results when nothing was collected
Seeded(collected) ==
    IF collected.items = <<>> THEN List(<<FakeResult>>) ELSE collected

\* the list l of fetchall when the n-th row has been read: it is made once,
\* before the loop over the rows
RECURSIVE ValuesUpTo(_, _)
ValuesUpTo(rows, n) ==
    IF n = 0 THEN <<>> ELSE ValuesUpTo(rows, n - 1) \o Values(rows[n])

\* the value fetchall returns for the last_result it found
Fetchall(results) ==
    IF results = None THEN <<>>
    ELSE [i \in 1..Len(results.items) |-> ValuesUpTo(results.items, i)]

\* DecodableCursor.description
Description(results) ==
    IF results = None \/ results.items = <<>>
    THEN <<<<"failures">>, <<"should_warn">>, <<"should_error">>>>
    ELSE [i \in 1..Len(results.items[1]) |-> <<Keys(results.items[1])[i]>>]

----------------------------------------------------------------------------
(* decodable/client/client.py, as far as the adapter calls it: the service *)
(* holds streams [id, name] and pipelines [id, name, sql, actual_state,    *)
(* target_state, sources, sink], where sources and sink are stream ids; a  *)
(* request for an id it does not hold is answered 404, which the client    *)
(* raises as ResourceNotFound.  A relation is [identifier, type], each an  *)
(* Optional[str]; it renders as its identifier.                            *)

Stream(id, name) == [id |-> id, name |-> name]

Pipeline(id, name, sql, actual_state, target_state, sources, sink) ==
    [id |-> id, name |-> name, sql |-> sql, actual_state |-> actual_state,
     target_state |-> target_state, sources |-> sources, sink |-> sink]

Relation(identifier, type) == [identifier |-> identifier, type |-> type]

Request(method, id) == [method |-> method, id |-> id]

\* the greatest index of a non-empty set of indices
Last(indices) == CHOOSE i \in indices : \A j \in indices : j <= i

\* get_stream_id and get_pipeline_id: the id of the last listed item of the
\* name, None when there is none
GetId(items, name) ==
    LET named == {i \in 1..Len(items) : items[i].name = name}
    IN  IF named = {} THEN <<>> ELSE <<items[Last(named)].id>>

\* whether the service holds the id: its answer is 404 otherwise
Held(items, id) == \E i \in 1..Len(items) : items[i].id = id

\* get_pipeline_information, for an id the service holds
Information(items, id) == items[CHOOSE i \in 1..Len(items) : items[i].id = id]

\* what delete_stream and delete_pipeline leave
Without(items, id) ==
    LET Other(item) == item.id # id
    IN  SelectSeq(items, Other)

\* what update_stream leaves: the stream of the id patched with the props
UpdatedStream(items, id, props) ==
    [i \in 1..Len(items) |->
        IF items[i].id = id
        THEN [items[i] EXCEPT !.name = IF Has(props, "name") THEN Get(props, "name") ELSE @]
        ELSE items[i]]

\* what update_pipeline leaves: the pipeline of the id patched with the props
UpdatedPipeline(items, id, props) ==
    [i \in 1..Len(items) |->
        IF items[i].id = id
        THEN [items[i] EXCEPT !.name = IF Has(props, "name") THEN Get(props, "name") ELSE @,
                              !.sql = IF Has(props, "sql") THEN Get(props, "sql") ELSE @]
        ELSE items[i]]

\* get_associated_streams(pipeline_id).items
AssociatedStreams(pipeline) ==
    [i \in 1..Len(pipeline.sources) |->
        [stream_id |-> pipeline.sources[i], is_source |-> TRUE]]
    \o <<[stream_id |-> pipeline.sink, is_source |-> FALSE]>>

----------------------------------------------------------------------------
(* dbt/adapters/decodable/impl.py: drop_relation, rename_relation and      *)
(* create_table.                                                          *)

\* pipe_info["actual_state"] == "RUNNING" or pipe_info["target_state"] == "RUNNING"
Running(pipe_info) ==
    pipe_info.actual_state = "RUNNING" \/ pipe_info.target_state = "RUNNING"

\* the requests that drop the pipeline of the id: it is deactivated first
\* when it runs
DeletePipeline(pipeline_id) ==
    <<Request("get_pipeline_information", pipeline_id)>>
    \o (IF Running(Information(pipelines, pipeline_id))
        THEN <<Request("deactivate_pipeline", pipeline_id)>> ELSE <<>>)
    \o <<Request("delete_pipeline", pipeline_id)>>

\* a drop_relation that takes no pipeline for a reader of the stream
ShouldDeleteNone(items, stream_id) == FALSE

\* should_delete: the pipeline has the stream as a source
ShouldDelete(items, stream_id) ==
    \E i \in 1..Len(items) : items[i].is_source /\ items[i].stream_id = stream_id

\* a call of drop_relation(name) that has passed its first checks
Frame(name) == [name |-> name, at |-> "pipeline", stream_id |-> "", listed |-> <<>>, i |-> 0]

Top == stack[Len(stack)]

\* the stack with the top frame replaced, and with it removed
Replaced(frame) == [stack EXCEPT ![Len(stack)] = frame]

Popped == SubSeq(stack, 1, Len(stack) - 1)

\* relation.render() and str(relation), for a relation with an identifier
Render(relation) == relation.identifier[1]

\* str.replace(old, new, count) for a non-empty old; every occurrence when
\* count is negative
RECURSIVE Replace(_, _, _, _)
Replace(sql, old, new, count) ==
    IF count = 0 \/ Len(sql) < Len(old) THEN sql
    ELSE IF SubSeq(sql, 1, Len(old)) = old
    THEN new \o Replace(SubSeq(sql, Len(old) + 1, Len(sql)), old, new, count - 1)
    ELSE SubSeq(sql, 1, 1) \o Replace(SubSeq(sql, 2, Len(sql)), old, new, count)

\* DecodableAdapter._replace_sink
ReplaceSink(old_sink, new_sink, sql) ==
    Replace(sql, "INSERT INTO " \o Render(old_sink), "INSERT INTO " \o Render(new_sink), 1)

\* DecodableAdapter._replace_source
ReplaceSource(old_source, new_source, sql) ==
    Replace(Replace(sql, "from " \o Render(old_source), "from " \o Render(new_source), -1),
            "FROM " \o Render(old_source), "FROM " \o Render(new_source), -1)

\* DecodableAdapter._pipeline_description
PipelineDescription(relation) == "Pipeline for the '" \o Render(relation) \o "' dbt model"

\* cache_renamed: dbt's cache drops the old name and holds the new one
CacheRenamed(names, from_relation, to_relation) ==
    (names \ {from_relation.identifier[i] : i \in 1..Len(from_relation.identifier)})
        \cup {to_relation.identifier[i] : i \in 1..Len(to_relation.identifier)}

\* what a call leaves: its outcome and the service's streams and pipelines
Left(outcome, held_streams, held_pipelines) ==
    [ret |-> outcome, streams |-> held_streams, pipelines |-> held_pipelines]

\* the loop of rename_relation over the listed pipelines: the SQL of every
\* pipeline that has the stream as a source and has SQL
SourcesRenamed(items, stream_id, from_relation, to_relation) ==
    [i \in 1..Len(items) |->
        IF /\ ShouldDelete(AssociatedStreams(items[i]), stream_id)
           /\ items[i].sql # ""
        THEN UpdatedPipeline(items, items[i].id,
                             <<<<"sql", ReplaceSource(from_relation, to_relation,
                                                      items[i].sql)>>>>)[i]
        ELSE items[i]]

\* rename_relation after cache_renamed, on the streams and pipelines the
\* service holds
RenameRelation(from_relation, to_relation, held_streams, held_pipelines) ==
    LET stream_id == GetId(held_streams, Render(from_relation))
        pipeline_id == GetId(held_pipelines, Render(from_relation))
        renamed_streams ==
            UpdatedStream(held_streams, stream_id[1], <<<<"name", Render(to_relation)>>>>)
        sql == Information(held_pipelines, pipeline_id[1]).sql
        renamed_pipelines ==
            UpdatedPipeline(held_pipelines, pipeline_id[1],
                    <<<<"name", Render(to_relation)>>,
                      <<"sql", ReplaceSink(from_relation, to_relation, sql)>>,
                      <<"description", PipelineDescription(to_relation)>>>>)
    IN  IF from_relation.identifier = <<>>
        THEN Left(Raise("CompilationError", "Cannot rename an unnamed relation"),
                  held_streams, held_pipelines)
        ELSE IF stream_id = <<>>
        THEN Left(Raise("DatabaseError", "Cannot rename '" \o Render(from_relation)
                                         \o "': stream does not exist"),
                  held_streams, held_pipelines)
        ELSE IF to_relation.identifier = <<>>
        THEN Left(Raise("CompilationError", "Cannot rename relation "
                                            \o Render(from_relation) \o " to nothing"),
                  held_streams, held_pipelines)
        ELSE IF pipeline_id = <<>>
        THEN Left(Raise("DatabaseError", "Cannot rename '" \o Render(from_relation)
                                         \o "': pipeline does not exist"),
                  renamed_streams, held_pipelines)
        ELSE IF sql = ""
        THEN Left(Raise("DatabaseError", "Cannot rename relation '"
                            \o Render(from_relation) \o "': pipeline returned no sql"),
                  renamed_streams, held_pipelines)
        ELSE Left(Return(None), renamed_streams,
                  SourcesRenamed(renamed_pipelines, stream_id[1], from_relation,
                                 to_relation))

\* DecodableAdapter._get_model_schema_hints, for the columns of the model:
\* a column without data_type is passed over
SchemaHints(columns) ==
    LET Checked(types) ==
            LET bad == {i \in 1..Len(columns) :
                            columns[i].data_type # <<>> /\ types[i] = None}
                typed == LET Typed(column) == column.data_type # <<>>
                         IN  SelectSeq([i \in 1..Len(columns) |->
                                            [name |-> columns[i].name,
                                             data_type |-> columns[i].data_type,
                                             type |-> types[i]]], Typed)
            IN  IF bad # {}
                THEN Raise("CompilationError", "Type '"
                              \o columns[First(bad)].data_type[1] \o "' not recognized")
                ELSE Return([i \in 1..Len(typed) |->
                                SchemaField(typed[i].name, typed[i].type)])
    IN  Checked([i \in 1..Len(columns) |->
                    IF columns[i].data_type = <<>> THEN None
                    ELSE FromStr(columns[i].data_type[1])])

\* the loop that wraps the type of the primary key's field
WithPrimaryKey(schema, primary_key) ==
    [i \in 1..Len(schema) |->
        IF primary_key # <<>> /\ schema[i].name = primary_key[1]
        THEN SchemaField(schema[i].name, PrimaryKey(schema[i].type))
        ELSE schema[i]]

\* create_table up to get_stream_id: the schema to create the stream with,
\* or the error raised before any request that creates
Prepared(relation, fields, columns, primary_key) ==
    LET Made(schema, schema_hints) ==
            IF schema.raised
            THEN Raise("CompilationError", "Error creating the " \o Render(relation)
                                           \o " stream: " \o schema.message)
            ELSE IF schema_hints.raised
            THEN Raise("ParsingError", "Error creating the " \o Render(relation)
                                       \o " stream: " \o schema_hints.message)
            ELSE Return(WithPrimaryKey(schema.value, primary_key))
    IN  IF relation.identifier = <<>>
        THEN Raise("CompilationError", "Cannot create an unnamed relation")
        ELSE IF fields = <<>>
        THEN Raise("DatabaseError", "Error creating the " \o Render(relation)
                                    \o " stream: empty schema returned for sql")
        ELSE Made(SchemaFromJson(fields), SchemaHints(columns))

\* a create_table that takes no stream for held
StreamHeldNever(stream_id) == FALSE

\* the else branch of `if not stream_id`
StreamHeld(stream_id) == stream_id # <<>>

\* a create_table that has created the stream
CreateFrame(name, at) ==
    [name |-> name, at |-> at, stream_id |-> "s9", listed |-> <<>>, i |-> 0]

----------------------------------------------------------------------------
(* The state machine: one library call from the initial state. *)

NoEq == [ab |-> FALSE, ba |-> FALSE]

genVars == <<pc, backoff, total_time, yields, sleeps, staggers>>

curVars == <<cursor, response, append_stream, last_result, polls, fetched>>

svcVars == <<streams, pipelines, cache, stack, requests>>

Init ==
    /\ op = "init"
    /\ kind = ""
    /\ texts = <<>>
    /\ a = None
    /\ b = None
    /\ found = None
    /\ eq = NoEq
    /\ hashes = <<>>
    /\ args = <<>>
    /\ ret = Return(None)
    /\ pc = "none"
    /\ backoff = 0
    /\ total_time = 0
    /\ yields = <<>>
    /\ sleeps = <<>>
    /\ staggers = <<>>
    /\ cursor = "none"
    /\ response = None
    /\ append_stream = FALSE
    /\ last_result = None
    /\ polls = <<>>
    /\ fetched = <<>>
    /\ streams = <<>>
    /\ pipelines = <<>>
    /\ cache = {}
    /\ stack = <<>>
    /\ requests = <<>>

\* x == y, y == x, hash(x), hash(y) of two constructed nodes
Compare ==
    /\ op = "init"
    /\ \E p \in ComparedPairs :
        LET x == p[1]
            y == p[2]
        IN  /\ op' = "compare"
            /\ a' = x
            /\ b' = y
            /\ eq' = [ab |-> Eq(x, y), ba |-> Eq(y, x)]
            /\ hashes' = <<Hash(x), Hash(y)>>
    /\ UNCHANGED <<kind, texts, found, args, ret, genVars, curVars, svcVars>>

\* FieldType.from_str(t) of a text t formed the way k
FromStrCall ==
    /\ op = "init"
    /\ \E i \in FromStrInputs :
        LET k == i[1]
            t == i[2]
        IN  /\ op' = "from_str"
            /\ kind' = k
            /\ texts' = <<t>>
            /\ found' = FromStr(t)
    /\ UNCHANGED <<a, b, eq, hashes, args, ret, genVars, curVars, svcVars>>

\* FieldType.from_str(repr(x))
RoundTrip ==
    /\ op = "init"
    /\ \E x \in RoundTripNodes :
        /\ op' = "round_trip"
        /\ a' = x
        /\ texts' = <<Repr(x)>>
        /\ found' = FromStr(Repr(x))
    /\ UNCHANGED <<kind, b, eq, hashes, args, ret, genVars, curVars, svcVars>>

\* FieldType.from_str(t1) == FieldType.from_str(t2), and the hashes
ParsePair ==
    /\ op = "init"
    /\ \E t1 \in PairTexts, t2 \in PairTexts :
        LET x == FromStr(t1)
            y == FromStr(t2)
        IN  /\ op' = "parse_pair"
            /\ texts' = <<t1, t2>>
            /\ a' = x
            /\ b' = y
            /\ eq' = [ab |-> Eq(x, y), ba |-> Eq(y, x)]
            /\ hashes' = <<Hash(x), Hash(y)>>
    /\ UNCHANGED <<kind, found, args, ret, genVars, curVars, svcVars>>

\* Type texts of every equality class with more than one display form, with
\* a neighbour outside it, bare and nested
TripleTexts ==
    {"DECIMAL", "DEC(10, 0)", "NUMERIC", "DECIMAL(1, 2)", "STRING",
     "VARCHAR(2147483647)", "VARCHAR(1)", "TIMESTAMP(3) WITH TIME ZONE",
     "TIMESTAMP_LTZ(3)", "TIMESTAMP(3)", "ARRAY<DECIMAL>", "NUMERIC ARRAY",
     "DEC NOT NULL", "NUMERIC NOT NULL", "MAP<STRING, DEC>",
     "MAP<VARCHAR(2147483647), NUMERIC>"}

\* x == y for every two of three nodes from_str returns, in both orders
ParseTriple ==
    /\ op = "init"
    /\ \E t1 \in TripleTexts, t2 \in TripleTexts, t3 \in TripleTexts :
        \E n \in {[i \in 1..3 |-> FromStr(<<t1, t2, t3>>[i])]} :
            /\ op' = "parse_triple"
            /\ texts' = <<t1, t2, t3>>
            /\ a' = n[1]
            /\ b' = n[2]
            /\ found' = n[3]
            /\ eq' = [aa |-> Eq(n[1], n[1]), ab |-> Eq(n[1], n[2]), ba |-> Eq(n[2], n[1]),
                      bc |-> Eq(n[2], n[3]), cb |-> Eq(n[3], n[2]),
                      ac |-> Eq(n[1], n[3]), ca |-> Eq(n[3], n[1])]
    /\ UNCHANGED <<kind, hashes, args, ret, genVars, curVars, svcVars>>

\* FieldType.from_str(f"MAP<{k}, {v}>") beside from_str(k) and from_str(v)
ParseMap ==
    /\ op = "init"
    /\ \E k \in MapPartTexts, v \in MapPartTexts :
        /\ op' = "parse_map"
        /\ texts' = <<k, v, "MAP<" \o k \o ", " \o v \o ">">>
        /\ a' = FromStr(k)
        /\ b' = FromStr(v)
        /\ found' = FromStr("MAP<" \o k \o ", " \o v \o ">")
    /\ UNCHANGED <<kind, eq, hashes, args, ret, genVars, curVars, svcVars>>

\* The texts of test_from_str_defaults, for every keyword and precision: a
\* text with parameters left out beside one that spells them, as
\* <<"same" or "differ", t1, t2>>
DefaultsTexts ==
    UNION {{<<"same", n, n \o "(10)">>, <<"same", n \o "(10)", n \o "(10, 0)">>,
            <<"same", n, n \o "(10, 0)">>} : n \in {"DECIMAL", "DEC", "NUMERIC"}}
    \cup {<<"same", n \o "(" \o IntToStr(p) \o ")", n \o "(" \o IntToStr(p) \o ", 0)">> :
            n \in {"DECIMAL", "DEC", "NUMERIC"}, p \in Precisions}
    \cup {<<"same", "TIMESTAMP(" \o IntToStr(p) \o ")",
             "TIMESTAMP(" \o IntToStr(p) \o ") WITHOUT TIME ZONE">> : p \in Precisions}
    \cup {<<"differ", "TIMESTAMP(" \o IntToStr(p) \o ")",
             "TIMESTAMP(" \o IntToStr(p) \o ") WITH TIME ZONE">> : p \in Precisions}

\* FieldType.from_str(t1) == FieldType.from_str(t2) of such a pair
ParseDefaults ==
    /\ op = "init"
    /\ \E d \in DefaultsTexts :
        LET x == FromStr(d[2])
            y == FromStr(d[3])
        IN  /\ op' = "parse_defaults"
            /\ kind' = d[1]
            /\ texts' = <<d[2], d[3]>>
            /\ a' = x
            /\ b' = y
            /\ eq' = [ab |-> Eq(x, y), ba |-> Eq(y, x)]
            /\ hashes' = <<Hash(x), Hash(y)>>
    /\ UNCHANGED <<found, args, ret, genVars, curVars, svcVars>>

typesVars == <<texts, a, b, found, eq, hashes>>

\* The type texts handed to the field constructors, as <<how formed, text>>
FieldTypeInputs == {i \in FromStrInputs : i[1] # "free"}

\* SchemaField.get_field_type(t), PhysicalSchemaField.get(name, t) or
\* MetadataSchemaField.get(name, key, t)
FieldGet ==
    /\ op = "init"
    /\ \E i \in FieldTypeInputs, fn \in {"get_field_type", "physical", "metadata"} :
        /\ op' = "field_get"
        /\ kind' = i[1]
        /\ args' = <<fn, i[2]>>
        /\ ret' = IF fn = "get_field_type" THEN GetFieldType(i[2])
                  ELSE IF fn = "physical" THEN PhysicalGet("field1", i[2])
                  ELSE MetadataGet("field1", "key1", i[2])
    /\ UNCHANGED <<typesVars, genVars, curVars, svcVars>>

\* The mappings handed to schema_field_factory: every kind of the tests and
\* some that are none, with the keys the kind needs, or with all keys
FieldKinds == {"physical", "metadata", "computed", "Physical", "virtual", ""}

FieldMappings ==
    {<<<<"name", "field1">>, <<"kind", k>>, <<"type", t>>>> :
        k \in FieldKinds, t \in MapPartTexts}
    \cup {<<<<"name", "field1">>, <<"kind", k>>, <<"key", "key1">>, <<"type", t>>>> :
        k \in FieldKinds, t \in MapPartTexts}
    \cup {<<<<"name", "field1">>, <<"kind", k>>, <<"expression", e>>>> :
        k \in FieldKinds, e \in {"expr1", "a + 1"}}
    \cup {<<<<"type", t>>, <<"expression", "expr1">>, <<"key", "key1">>, <<"kind", k>>,
            <<"name", "field2">>>> : k \in FieldKinds, t \in MapPartTexts}

\* schema_field_factory(field)
FactoryCall ==
    /\ op = "init"
    /\ \E field \in FieldMappings :
        /\ op' = "factory"
        /\ args' = field
        /\ ret' = SchemaFieldFactory(field)
    /\ UNCHANGED <<kind, typesVars, genVars, curVars, svcVars>>

\* The fields, watermarks and primary keys of the schemas built
FieldPool ==
    {PhysicalSchemaField("field1", x) :
        x \in {Plain("Int"), Decimal(10, 2), TArray(String), NotNull(Plain("Int")),
               Map(Plain("Int"), String), Map(Plain("Int"), Decimal(10, 2))}}
    \cup {MetadataSchemaField("meta1", "key1", Timestamp(3, FALSE)),
          ComputedSchemaField("calc1", "field1 + 1"),
          ComputedSchemaField("calc2", "CONCAT(\"a\", field1)")}

WatermarkLists ==
    {<<>>, <<Watermark("wm1", "expr1")>>,
     <<Watermark("wm1", "expr1"), Watermark("wm2", "expr2")>>,
     <<Watermark("wm2", "expr2"), Watermark("wm1", "expr1")>>}

RECURSIVE SeqsUpTo(_, _)
SeqsUpTo(S, n) ==
    IF n = 0 THEN {<<>>}
    ELSE SeqsUpTo(S, n - 1) \cup {Append(q, x) : q \in {r \in SeqsUpTo(S, n - 1) : Len(r) = n - 1}, x \in S}

Schemas ==
    {SchemaV2(f, w, Constraints(List(k))) :
        f \in SeqsUpTo(FieldPool, MaxFields), w \in WatermarkLists \ {<<>>},
        k \in {<<>>, <<"field1">>}}

\* The schemas compared: synonym types, both orders of fields and
\* watermarks, and the primary key that from_json leaves out
ComparedSchemas ==
    {SchemaV2(f, w, Constraints(k)) :
        f \in SeqsUpTo({PhysicalSchemaField("field1", String),
                        PhysicalSchemaField("field2", Decimal(10, 0))}, MaxFields)
              \cup {<<PhysicalSchemaField("field2", Numeric(10, 0))>>,
                    <<PhysicalSchemaField("field1", Varchar(StringLength))>>},
        w \in WatermarkLists \ {<<Watermark("wm1", "expr1")>>},
        k \in {List(<<"field1">>), None}}

\* d without the keys not in keys
Restrict(d, keys) ==
    LET Kept(item) == item[1] \in keys
    IN  SelectSeq(d, Kept)

\* The mappings handed to from_json: a serialized schema less any of its
\* keys, with constraints of no key, or with an entry that lacks a key
JsonMappings ==
    {Restrict(SchemaV2ToDict(x), keys) :
        x \in {y \in Schemas : Len(y.fields) <= 1},
        keys \in SUBSET {"fields", "watermarks", "constraints"}}
    \cup {<<<<"fields", f>>, <<"watermarks", w>>, <<"constraints", <<>>>>>> :
            f \in {<<>>, <<<<<<"name", "field1">>, <<"type", "INT">>>>>>},
            w \in {<<>>, <<<<<<"name", "wm1">>>>>>}}

\* SchemaV2.from_json(json)
FromJsonCall ==
    /\ op = "init"
    /\ \E json \in JsonMappings :
        /\ op' = "from_json"
        /\ args' = json
        /\ ret' = SchemaV2FromJson(json)
    /\ UNCHANGED <<kind, typesVars, genVars, curVars, svcVars>>

\* SchemaV2.from_json(s.to_dict()) == s
SchemaRoundTrip ==
    /\ op = "init"
    /\ \E x \in Schemas :
        \E r \in {SchemaV2FromJson(SchemaV2ToDict(x))} :
            /\ op' = "schema_round_trip"
            /\ args' = x
            /\ ret' = r
            /\ eq' = IF r.raised THEN NoEq
                     ELSE [ab |-> SchemaV2Eq(r.value, x), ba |-> SchemaV2Eq(x, r.value)]
    /\ UNCHANGED <<kind, texts, a, b, found, hashes, genVars, curVars, svcVars>>

\* s1 == s2, hash(s1), hash(s2), beside json.dumps of their to_dict()
SchemaCompare ==
    /\ op = "init"
    /\ \E x \in ComparedSchemas, y \in ComparedSchemas :
        /\ op' = "schema_compare"
        /\ args' = <<x, y>>
        /\ texts' = <<JsonDumps(SchemaV2ToDict(x)), JsonDumps(SchemaV2ToDict(y))>>
        /\ eq' = [ab |-> SchemaV2Eq(x, y), ba |-> SchemaV2Eq(y, x)]
        /\ hashes' = <<SchemaV2Hash(x), SchemaV2Hash(y)>>
    /\ UNCHANGED <<kind, a, b, found, ret, genVars, curVars, svcVars>>

\* The schema entries the service answers with, its pipelines and streams
SchemaEntries ==
    {[name |-> "y", type |-> "INT"], [name |-> "y", type |-> "BIGINT"],
     [name |-> "z", type |-> "string"]}

SchemaJsons ==
    SeqsUpTo(SchemaEntries, MaxFields)
    \cup {<<[name |-> "z", type |-> "DEC(10, 0)"]>>, <<[name |-> "z", type |-> "NUMERIC"]>>}

LocalSql == "SELECT CAST(x AS INT) AS y FROM t"

Watermarks == {<<>>, <<"ts - INTERVAL '1' SECOND">>}

RemotePipelines ==
    {None, [sql |-> WrapAsPipeline("stream1", LocalSql)],
     [sql |-> WrapAsPipeline("stream1", "SELECT x AS y FROM t")]}

RemoteStreams ==
    {None} \cup {[schema |-> j, watermark |-> w] : j \in SchemaJsons, w \in Watermarks}

\* adapter.has_changed(sql, relation, watermark) against a state of the
\* service
HasChangedCall ==
    /\ op = "init"
    /\ \E fields \in SchemaJsons, pipeline \in RemotePipelines, stream \in RemoteStreams,
          watermark \in Watermarks :
        /\ op' = "has_changed"
        /\ args' = [sql |-> LocalSql, relation |-> "stream1", watermark |-> watermark,
                    fields |-> fields, pipeline |-> pipeline, stream |-> stream]
        /\ ret' = HasChanged(LocalSql, "stream1", watermark, fields, pipeline, stream)
    /\ UNCHANGED <<kind, typesVars, genVars, curVars, svcVars>>

\* The timeouts of the generator and the values randint gives
Timeouts == {1000 * n + d : n \in 0..MaxTimeout, d \in {0, 1, 500, 999}}

Staggers == {0, 1, MaxStagger \div 2, MaxStagger - 1, MaxStagger}

\* exponential_backoff(timeout) and the first next(): the locals are set
\* and total_time is yielded before any sleep
BackoffStart ==
    /\ op = "init"
    /\ \E timeout \in Timeouts :
        /\ op' = "backoff"
        /\ args' = [timeout |-> timeout]
        /\ backoff' = InitialBackoff
        /\ total_time' = 0
        /\ yields' = <<0>>
        /\ pc' = "yield"
    /\ UNCHANGED <<kind, typesVars, ret, sleeps, staggers, curVars, svcVars>>

\* next() of the suspended generator: stagger, sleep, and then either the
\* break that ends it or the next yield
BackoffResume ==
    /\ op = "backoff"
    /\ pc = "yield"
    /\ \E stagger \in Staggers :
        LET time == SleepTime(args.timeout, stagger)
        IN  /\ staggers' = Append(staggers, stagger)
            /\ sleeps' = Append(sleeps, time)
            /\ total_time' = total_time + time
            /\ backoff' = backoff * 2
            /\ IF args.timeout - (total_time + time) < Epsilon
               THEN pc' = "done" /\ yields' = yields
               ELSE pc' = "yield" /\ yields' = Append(yields, total_time + time)
    /\ UNCHANGED <<op, kind, typesVars, args, ret, curVars, svcVars>>

\* The inputs of the cursor: its timeouts, what randint gives, the rows and
\* changes of a preview, and the continuation tokens
CursorTimeouts == {0, 2500, 3001}

CursorStaggers == {0, MaxStagger}

Row1 == <<<<"id", "1">>, <<"name", "a">>>>

Row2 == <<<<"id", "2">>>>

Change(before, after) == <<<<"before", before>>, <<"after", after>>>>

AppendResults == {<<>>, <<Row1>>, <<Row2, Row1>>}

ChangeResults ==
    {<<>>, <<Change(<<>>, Row1)>>, <<Change(Row1, Row2), Change(Row2, <<>>)>>,
     <<Change(Row1, <<>>), Change(<<>>, Row2)>>}

NextTokens == {<<>>, <<"token1">>, <<"token2">>}

\* execute up to the loop: create_preview, append_stream, the empty
\* last_result, and the generator's first yield
ExecuteStart ==
    /\ op = "init"
    /\ \E timeout \in CursorTimeouts, type \in {"APPEND", "CHANGE"},
          token \in {<<>>, <<"token0">>} :
        /\ op' = "execute"
        /\ args' = [timeout |-> timeout,
                    created |-> PreviewResponse("preview1", type, <<>>, token)]
        /\ response' = PreviewResponse("preview1", type, <<>>, token)
        /\ append_stream' = (type = "APPEND")
        /\ last_result' = List(<<>>)
        /\ backoff' = InitialBackoff
        /\ total_time' = 0
        /\ yields' = <<0>>
        /\ pc' = "yield"
        /\ cursor' = "loop"
    /\ UNCHANGED <<kind, typesVars, ret, sleeps, staggers, polls, fetched, svcVars>>

\* one pass of the loop body: run_preview with the token of the response
\* at hand, the update of last_result, and the break that ends execute
\* when the response has no next_token
ExecutePoll ==
    /\ op = "execute"
    /\ cursor = "loop"
    /\ \E results \in (IF append_stream THEN AppendResults ELSE ChangeResults),
          next_token \in NextTokens :
        \E received \in {PreviewResponse(response.id, response.output_stream_type,
                                         results, next_token)} :
            /\ polls' = Append(polls, [id |-> response.id, token |-> response.next_token,
                                       response |-> received])
            /\ response' = received
            /\ IF Break(received)
               THEN /\ cursor' = "returned"
                    /\ last_result' =
                           Seeded(Collected(append_stream, last_result, received.results))
               ELSE /\ cursor' = "resume"
                    /\ last_result' = Collected(append_stream, last_result, received.results)
    /\ UNCHANGED <<op, kind, typesVars, args, ret, genVars, append_stream, fetched,
                   svcVars>>

\* the for statement's next() of the generator: the sleep, and then the
\* next pass or, when the generator is finished, the end of execute
ExecuteNext ==
    /\ op = "execute"
    /\ cursor = "resume"
    /\ \E stagger \in CursorStaggers :
        \E time \in {SleepTime(args.timeout, stagger)} :
            /\ staggers' = Append(staggers, stagger)
            /\ sleeps' = Append(sleeps, time)
            /\ total_time' = total_time + time
            /\ backoff' = backoff * 2
            /\ IF args.timeout - (total_time + time) < Epsilon
               THEN /\ pc' = "done"
                    /\ yields' = yields
                    /\ cursor' = "returned"
                    /\ last_result' = Seeded(last_result)
               ELSE /\ pc' = "yield"
                    /\ yields' = Append(yields, total_time + time)
                    /\ cursor' = "loop"
                    /\ last_result' = last_result
    /\ UNCHANGED <<op, kind, typesVars, args, ret, response, append_stream, polls,
                   fetched, svcVars>>

\* cursor.fetchall() after execute has returned, up to twice
FetchallCall ==
    /\ op = "execute"
    /\ cursor = "returned"
    /\ Len(fetched) < 2
    /\ fetched' = Append(fetched, Fetchall(last_result))
    /\ last_result' = None
    /\ UNCHANGED <<op, kind, typesVars, args, ret, genVars, cursor, response,
                   append_stream, polls, svcVars>>

\* DecodableAdapterConnectionManager.execute(sql, fetch=False): a new
\* cursor, seed_fake_results, and dbt's get_result_from_cursor, which reads
\* the cursor's description and then its fetchall()
ExecuteNoFetch ==
    /\ op = "init"
    /\ op' = "execute_no_fetch"
    /\ cursor' = "returned"
    /\ ret' = Return([column_names |-> Description(List(<<FakeResult>>)),
                      rows |-> Fetchall(List(<<FakeResult>>))])
    /\ fetched' = <<Fetchall(List(<<FakeResult>>))>>
    /\ last_result' = None
    /\ UNCHANGED <<kind, typesVars, args, genVars, response, append_stream, polls,
                   svcVars>>

\* The service states drop_relation meets: streams a, b, c, the pipelines
\* b (reading a) and c (reading a, b or both) in either listing order, and
\* perhaps the pipeline a, reading nothing or c
PipelineStates ==
    {<<"RUNNING", "RUNNING">>, <<"STOPPED", "STOPPED">>, <<"STOPPED", "RUNNING">>,
     <<"RUNNING", "STOPPED">>}

GraphStreams == <<Stream("s1", "a"), Stream("s2", "b"), Stream("s3", "c")>>

DropGraphs ==
    LET pb == Pipeline("p2", "b", "INSERT INTO b SELECT * FROM a", "STOPPED", "RUNNING",
                       <<"s1">>, "s2")
        readers == {Pipeline("p3", "c", "INSERT INTO c SELECT * FROM a", "RUNNING", "STOPPED",
                         sources, "s3") : sources \in {<<"s1">>, <<"s2">>, <<"s1", "s2">>}}
        pas == {<<>>} \cup
               {<<Pipeline("p1", "a", "INSERT INTO a SELECT * FROM c", state[1], state[2],
                           sources, "s1")>> :
                    state \in PipelineStates, sources \in {<<>>, <<"s3">>}}
    IN  {[streams |-> GraphStreams, pipelines |-> pa \o rest] :
            pa \in pas, rest \in UNION {{<<pb, reader>>, <<reader, pb>>} : reader \in readers}}

DropRelations ==
    {Relation(<<name>>, <<"table">>) : name \in {"a", "b", "c", "d"}}
    \cup {Relation(<<>>, <<"table">>), Relation(<<"a">>, <<>>)}

\* drop_relation(relation) up to the client's first request: cache_dropped
\* and the checks of the relation's type and identifier
DropRelationCall ==
    /\ op = "init"
    /\ \E graph \in DropGraphs, relation \in DropRelations :
        /\ op' = "drop_relation"
        /\ args' = [relation |-> relation, streams |-> graph.streams,
                    pipelines |-> graph.pipelines]
        /\ streams' = graph.streams
        /\ pipelines' = graph.pipelines
        /\ cache' = {graph.streams[i].name : i \in 1..Len(graph.streams)}
                        \ {relation.identifier[i] : i \in 1..Len(relation.identifier)}
        /\ IF relation.type = <<>>
           THEN /\ ret' = Raise("CompilationError", "Tried to drop relation "
                                 \o relation.identifier[1] \o ", but its type is null.")
                /\ stack' = <<>>
           ELSE IF relation.identifier = <<>>
           THEN ret' = Return(None) /\ stack' = <<>>
           ELSE ret' = Return(None) /\ stack' = <<Frame(relation.identifier[1])>>
    /\ UNCHANGED <<kind, typesVars, genVars, curVars, requests>>

\* the pipeline of the relation's name: deactivated when it runs, deleted
DropPipeline ==
    /\ op = "drop_relation"
    /\ stack # <<>>
    /\ Top.at = "pipeline"
    /\ \E pipeline_id \in {GetId(pipelines, Top.name)} :
        IF pipeline_id # <<>>
        THEN /\ requests' = requests \o DeletePipeline(pipeline_id[1])
             /\ pipelines' = Without(pipelines, pipeline_id[1])
        ELSE UNCHANGED <<requests, pipelines>>
    /\ stack' = Replaced([Top EXCEPT !.at = "stream"])
    /\ UNCHANGED <<op, kind, typesVars, args, ret, genVars, curVars, streams, cache>>

\* get_stream_id: the return when there is no stream of the name, else
\* the list of the pipelines to go through
DropStream ==
    /\ op = "drop_relation"
    /\ stack # <<>>
    /\ Top.at = "stream"
    /\ \E stream_id \in {GetId(streams, Top.name)} :
        IF stream_id = <<>>
        THEN stack' = Popped
        ELSE stack' = Replaced([Top EXCEPT !.at = "loop", !.stream_id = stream_id[1],
                                           !.listed = pipelines, !.i = 1])
    /\ UNCHANGED <<op, kind, typesVars, args, ret, genVars, curVars, streams, pipelines,
                   cache, requests>>

\* one pass of the loop over the listed pipelines: get_associated_streams,
\* and for a reader of the stream get_pipeline_information and the call of
\* drop_relation for the relation of the pipeline's name
DropVisit ==
    /\ op = "drop_relation"
    /\ stack # <<>>
    /\ Top.at = "loop"
    /\ Top.i <= Len(Top.listed)
    /\ \E pipe_id \in {Top.listed[Top.i].id} :
        IF ~Held(pipelines, pipe_id)
        THEN /\ requests' = Append(requests, Request("get_associated_streams", pipe_id))
             /\ ret' = Raise("ResourceNotFound", pipe_id)
             /\ stack' = <<>>
             /\ cache' = cache
        ELSE IF ~ShouldDelete(AssociatedStreams(Information(pipelines, pipe_id)),
                              Top.stream_id)
        THEN /\ requests' = Append(requests, Request("get_associated_streams", pipe_id))
             /\ ret' = ret
             /\ stack' = Replaced([Top EXCEPT !.i = Top.i + 1])
             /\ cache' = cache
        ELSE /\ requests' = requests \o <<Request("get_associated_streams", pipe_id),
                                           Request("get_pipeline_information", pipe_id)>>
             /\ ret' = ret
             /\ stack' = Append(Replaced([Top EXCEPT !.i = Top.i + 1]),
                                Frame(Information(pipelines, pipe_id).name))
             /\ cache' = cache \ {Information(pipelines, pipe_id).name}
    /\ UNCHANGED <<op, kind, typesVars, args, genVars, curVars, streams, pipelines>>

\* after the loop: delete_stream and the return
DropDeleteStream ==
    /\ op = "drop_relation"
    /\ stack # <<>>
    /\ Top.at = "loop"
    /\ Top.i > Len(Top.listed)
    /\ requests' = Append(requests, Request("delete_stream", Top.stream_id))
    /\ streams' = Without(streams, Top.stream_id)
    /\ stack' = Popped
    /\ UNCHANGED <<op, kind, typesVars, args, ret, genVars, curVars, pipelines, cache>>

\* The service states rename_relation meets: streams a and b, perhaps the
\* pipeline a, with or without SQL, and the pipeline b reading a
RenameGraphs ==
    LET pas == {<<>>} \cup
               {<<Pipeline("p1", "a", sql, "RUNNING", "RUNNING", sources, "s1")>> :
                    sql \in {"INSERT INTO a SELECT x FROM a_source", ""},
                    sources \in {<<>>, <<"s1">>}}
        pbs == {<<Pipeline("p2", "b", sql, "STOPPED", "STOPPED", <<"s1">>, "s2")>> :
                    sql \in {"INSERT INTO b SELECT x FROM a JOIN c ON TRUE",
                             "insert into b select x from a, a_source", ""}}
    IN  {[streams |-> <<Stream("s1", "a"), Stream("s2", "b")>>, pipelines |-> pa \o pb] :
            pa \in pas, pb \in pbs}

RenameRelations ==
    {Relation(<<name>>, <<"table">>) : name \in {"a", "d"}} \cup {Relation(<<>>, <<"table">>)}

\* rename_relation(from_relation, to_relation)
RenameRelationCall ==
    /\ op = "init"
    /\ \E graph \in RenameGraphs, from_relation \in RenameRelations,
          to_relation \in RenameRelations :
        \E left \in {RenameRelation(from_relation, to_relation, graph.streams,
                                     graph.pipelines)} :
            /\ op' = "rename_relation"
            /\ args' = [from_relation |-> from_relation, to_relation |-> to_relation,
                        streams |-> graph.streams, pipelines |-> graph.pipelines,
                        cache |-> {"a", "b"}]
            /\ cache' = CacheRenamed({"a", "b"}, from_relation, to_relation)
            /\ ret' = left.ret
            /\ streams' = left.streams
            /\ pipelines' = left.pipelines
    /\ UNCHANGED <<kind, typesVars, genVars, curVars, stack, requests>>

\* The inputs of create_table: the relation (a stream a exists), the
\* schema the service plans for the SQL, the columns of the dbt model, the
\* primary key, and the request the service refuses, if any
CreateFields ==
    {j \in SchemaJsons : Len(j) <= 1}
    \cup {<<[name |-> "y", type |-> "INT"], [name |-> "z", type |-> "string"]>>,
          <<[name |-> "y", type |-> "INT"], [name |-> "z", type |-> "NUMERIC"]>>}

CreateColumns ==
    {<<>>, <<[name |-> "y", data_type |-> <<"INT">>], [name |-> "z", data_type |-> <<>>]>>,
     <<[name |-> "y", data_type |-> <<"INTEGER(1)">>]>>}

Refusals == {"", "create_stream", "create_pipeline", "activate_pipeline"}

\* create_table up to create_stream
CreateTableCall ==
    /\ op = "init"
    /\ \E relation \in {Relation(<<"a">>, <<"table">>), Relation(<<"d">>, <<"table">>),
                         Relation(<<>>, <<"table">>)},
          fields \in CreateFields, columns \in CreateColumns,
          primary_key \in {<<>>, <<"y">>}, refused \in Refusals :
        \E prepared \in {Prepared(relation, fields, columns, primary_key)} :
            /\ op' = "create_table"
            /\ args' = [relation |-> relation, sql |-> LocalSql, fields |-> fields,
                        columns |-> columns, primary_key |-> primary_key,
                        refused |-> refused, streams |-> <<Stream("s1", "a")>>,
                        pipelines |-> <<>>]
            /\ pipelines' = <<>>
            /\ IF prepared.raised
               THEN /\ ret' = prepared
                    /\ streams' = <<Stream("s1", "a")>>
                    /\ UNCHANGED <<requests, stack>>
               ELSE IF StreamHeld(GetId(<<Stream("s1", "a")>>, Render(relation)))
               THEN /\ ret' = Raise("DatabaseError", "Error creating the "
                                     \o Render(relation) \o " stream: stream already exists!")
                    /\ streams' = <<Stream("s1", "a")>>
                    /\ UNCHANGED <<requests, stack>>
               ELSE /\ requests' = <<[method |-> "create_stream", id |-> Render(relation),
                                      schema |-> prepared.value]>>
                    /\ IF refused = "create_stream"
                       THEN /\ ret' = Raise("InvalidRequest", "create_stream")
                            /\ streams' = <<Stream("s1", "a")>>
                            /\ stack' = stack
                       ELSE /\ ret' = Return(None)
                            /\ streams' = <<Stream("s1", "a"), Stream("s9", Render(relation))>>
                            /\ stack' = <<CreateFrame(Render(relation), "create_pipeline")>>
    /\ UNCHANGED <<kind, typesVars, genVars, curVars, cache>>

\* create_table: create_pipeline
CreatePipeline ==
    /\ op = "create_table"
    /\ stack # <<>>
    /\ Top.at = "create_pipeline"
    /\ requests' = Append(requests, Request("create_pipeline", Top.name))
    /\ IF args.refused = "create_pipeline"
       THEN /\ ret' = Raise("InvalidRequest", "create_pipeline")
            /\ stack' = <<>>
            /\ pipelines' = pipelines
       ELSE /\ ret' = ret
            /\ stack' = Replaced([Top EXCEPT !.at = "activate_pipeline"])
            /\ pipelines' = Append(pipelines,
                                   Pipeline("p9", Top.name, WrapAsPipeline(Top.name, args.sql),
                                            "STOPPED", "STOPPED", <<>>, Top.stream_id))
    /\ UNCHANGED <<op, kind, typesVars, args, genVars, curVars, streams, cache>>

\* create_table: activate_pipeline and the return
ActivatePipeline ==
    /\ op = "create_table"
    /\ stack # <<>>
    /\ Top.at = "activate_pipeline"
    /\ requests' = Append(requests, Request("activate_pipeline", "p9"))
    /\ IF args.refused = "activate_pipeline"
       THEN /\ ret' = Raise("InvalidRequest", "activate_pipeline")
            /\ pipelines' = pipelines
       ELSE /\ ret' = ret
            /\ pipelines' = [i \in 1..Len(pipelines) |->
                                IF pipelines[i].id = "p9"
                                THEN [pipelines[i] EXCEPT !.target_state = "RUNNING"]
                                ELSE pipelines[i]]
    /\ stack' = <<>>
    /\ UNCHANGED <<op, kind, typesVars, args, genVars, curVars, streams, cache>>

Next ==
    \/ Compare
    \/ FromStrCall
    \/ RoundTrip
    \/ ParsePair
    \/ ParseMap
    \/ ParseDefaults
    \/ FieldGet
    \/ FactoryCall
    \/ FromJsonCall
    \/ SchemaRoundTrip
    \/ SchemaCompare
    \/ HasChangedCall
    \/ BackoffStart
    \/ BackoffResume
    \/ ExecuteStart
    \/ ExecutePoll
    \/ ExecuteNext
    \/ FetchallCall
    \/ ExecuteNoFetch
    \/ DropRelationCall
    \/ DropPipeline
    \/ DropStream
    \/ DropVisit
    \/ DropDeleteStream
    \/ RenameRelationCall
    \/ ParseTriple
    \/ CreateTableCall
    \/ CreatePipeline
    \/ ActivatePipeline

Spec == Init /\ [][Next]_vars

----------------------------------------------------------------------------
(* The claims. *)

Compared == op \in {"compare", "parse_pair"} /\ IsFieldType(a) /\ IsFieldType(b)

IsExact(o) == o.cls \in {"Decimal", "Dec", "Numeric"}

IsArrayNode(o) == o.cls \in {"Array", "TArray"}

IsLeaf(o) ==
    IsFieldType(o) /\ o.cls \notin {"NotNull", "PrimaryKey", "Array", "TArray", "Map"}

\* C1: the display form of a node built from the grammar's rules parses back
\* to a node whose display form is the same text.
C1_RoundTrip ==
    op = "round_trip" => (IsFieldType(found) /\ Repr(found) = texts[1])

\* C2: when from_str accepts k and v, from_str("MAP<k, v>") is a Map of
\* from_str(k) and from_str(v).
C2_MapCompositional ==
    (op = "parse_map" /\ IsFieldType(a) /\ IsFieldType(b))
        => (found.cls = "Map" /\ Eq(found.key, a) /\ Eq(found.value, b))

\* C3: nodes that compare equal have equal hashes.
C3_HashConsistent ==
    (Compared /\ eq.ab) => hashes[1] = hashes[2]

\* C4: two of Decimal(p, s), Dec(p, s), Numeric(p', s') are equal exactly when
\* their precisions and their scales agree; the bare keywords parse to equal nodes.
C4_ExactSynonyms ==
    /\ (Compared /\ IsExact(a) /\ IsExact(b))
          => (eq.ab <=> (a.precision = b.precision /\ a.scale = b.scale))
    /\ (op = "parse_pair" /\ {texts[1], texts[2]} \subseteq {"DECIMAL", "DEC", "NUMERIC"})
          => eq.ab

C4_Witness ==
    /\ op = "compare"
    /\ a.cls = "Decimal" /\ b.cls = "Numeric"
    /\ a.precision = 2 /\ b.precision = 1 /\ a.scale = 1 /\ b.scale = 1
    /\ ~eq.ab

\* C5: Varchar(n) equals String(), and Varbinary(n) equals Bytes(), exactly
\* when n is 2147483647, whichever side each is on.
C5_LengthSynonyms ==
    Compared =>
        /\ (a.cls = "Varchar" /\ b = String)
              => /\ eq.ab <=> (a.length = StringLength)
                 /\ eq.ba <=> (a.length = StringLength)
        /\ (a.cls = "Varbinary" /\ b = Bytes)
              => /\ eq.ab <=> (a.length = StringLength)
                 /\ eq.ba <=> (a.length = StringLength)

C5_Witness ==
    /\ op = "parse_pair"
    /\ texts = <<"VARCHAR(2147483647)", "STRING">>
    /\ a = Varchar(StringLength) /\ b = String
    /\ eq.ab /\ eq.ba

\* C6: two compound nodes are equal exactly when both are arrays (in either
\* spelling) with equal elements, or both are maps with equal keys and equal
\* values.
C6_CompoundStructural ==
    /\ (Compared /\ IsCompound(a) /\ IsCompound(b)) =>
          /\ (IsArrayNode(a) /\ IsArrayNode(b)) => (eq.ab <=> Eq(a.type, b.type))
          /\ (a.cls = "Map" /\ b.cls = "Map")
                => (eq.ab <=> (Eq(a.key, b.key) /\ Eq(a.value, b.value)))
          /\ (IsArrayNode(a) # IsArrayNode(b)) => ~eq.ab
    /\ (op = "parse_pair"
        /\ {texts[1], texts[2]} \subseteq {"ARRAY<DECIMAL>", "DECIMAL ARRAY", "ARRAY<NUMERIC>"})
          => eq.ab
    /\ (op = "compare"
        /\ a = Array(Decimal(DefaultPrecision, DefaultScale)) /\ b = TArray(String))
          => ~eq.ab

C6_Witness ==
    /\ op = "parse_pair"
    /\ texts = <<"ARRAY<DECIMAL>", "DECIMAL ARRAY">>
    /\ a.cls = "Array" /\ b.cls = "TArray"
    /\ eq.ab

\* C7: two NotNull nodes are equal exactly when their inner types are, and a
\* NotNull node and a node of another class are unequal on either side.
C7_NotNullEq ==
    Compared =>
        /\ (a.cls = "NotNull" /\ b.cls = "NotNull")
              => (eq.ab <=> Eq(a.inner_type, b.inner_type))
        /\ ((a.cls = "NotNull") # (b.cls = "NotNull")) => (~eq.ab /\ ~eq.ba)
        /\ (a = NotNull(Decimal(DefaultPrecision, DefaultScale))
            /\ b = NotNull(Numeric(DefaultPrecision, DefaultScale))) => eq.ab
        /\ (a = NotNull(Array(String)) /\ b = NotNull(Array(Plain("Boolean")))) => ~eq.ab

C7_Witness ==
    /\ op = "compare"
    /\ a = NotNull(Array(Dec(DefaultPrecision, DefaultScale)))
       \/ a = NotNull(Array(Decimal(DefaultPrecision, DefaultScale)))
    /\ b = NotNull(TArray(Numeric(DefaultPrecision, DefaultScale)))
    /\ eq.ab

\* The synonym pairs the claim C8 lists
ListedSynonyms(x, y) ==
    \/ IsExact(x) /\ IsExact(y) /\ x.precision = y.precision /\ x.scale = y.scale
    \/ {x, y} = {Varchar(StringLength), String}
    \/ {x, y} = {Varbinary(StringLength), Bytes}
    \/ {x, y} = {Float, Double}

\* A timestamp with time zone and the local-time-zone timestamp of its precision
ZonedPair(x, y) ==
    /\ {x.cls, y.cls} = {"Timestamp", "TimestampLocal"}
    /\ x.timezone /\ y.timezone
    /\ x.precision = y.precision

\* C8 (as stated): two leaf nodes from_str returns, with different display
\* forms, are equal only if they are one of the listed synonym pairs.
C8_OnlyListedSynonyms ==
    (op = "parse_pair" /\ IsLeaf(a) /\ IsLeaf(b) /\ Repr(a) # Repr(b) /\ eq.ab)
        => ListedSynonyms(a, b)

\* C8 (amended): ... only if they are one of the listed synonym pairs or
\* Timestamp(p) WITH TIME ZONE / TimestampLocal(p) of the same p.
C8_OnlyListedOrZoned ==
    (Compared /\ IsLeaf(a) /\ IsLeaf(b) /\ Repr(a) # Repr(b) /\ eq.ab)
        => (ListedSynonyms(a, b) \/ ZonedPair(a, b))

C8_Witness ==
    /\ op = "parse_pair"
    /\ texts = <<"TIMESTAMP(3) WITH TIME ZONE", "TIMESTAMP_LTZ(3)">>
    /\ a = Timestamp(3, TRUE) /\ b = TimestampLocal(3)
    /\ eq.ab /\ eq.ba

NodeClasses ==
    {"NotNull", "Char", "Varchar", "String", "Binary", "Varbinary", "Bytes", "Decimal",
     "Dec", "Numeric", "TinyInt", "SmallInt", "Int", "BigInt", "Float", "Double", "Date",
     "Time", "Timestamp", "TimestampLocal", "Array", "TArray", "Map", "Boolean",
     "Interval", "Multiset"}

\* C9: from_str ends with a node or None, never with an exception, and the
\* from_str calls it makes are on strictly shorter texts.
C9_FromStrTotal ==
    op \in {"from_str", "round_trip", "parse_map"} =>
        /\ found # RecursionError
        /\ found.cls \in NodeClasses \cup {"None"}
        /\ \A u \in InnerTexts(texts[Len(texts)]) : Len(u) < Len(texts[Len(texts)])

C9_Witness ==
    /\ op = "from_str"
    /\ kind = "free"
    /\ texts = <<"DECIMAL NOT NULL ARRAY">>
    /\ found = TArray(NotNull(Decimal(DefaultPrecision, DefaultScale)))

\* C10: a text with a truncated keyword, a keyword in another letter case, a
\* parameterised rule without digits, or a valid text with one more character
\* before or after it yields None, where the valid text itself yields a node.
C10_WholeStringMatch ==
    op = "from_str" =>
        /\ kind \in {"truncated", "case", "nodigits", "padded"} => found = None
        /\ kind = "valid" => IsFieldType(found)

C10_Witness ==
    /\ op = "from_str"
    /\ kind = "case"
    /\ texts = <<"Char(1)">>
    /\ found = None

\* C11: a text that leaves out the scale, or the precision and the scale, of
\* DECIMAL / DEC / NUMERIC parses to the node of the text that spells the
\* defaults 10 and 0; TIMESTAMP(p) parses to the node of TIMESTAMP(p) WITHOUT
\* TIME ZONE and to a node unequal to that of TIMESTAMP(p) WITH TIME ZONE.
C11_OmittedDefaults ==
    op = "parse_defaults" =>
        /\ IsFieldType(a) /\ IsFieldType(b)
        /\ kind = "same" => (a = b /\ eq.ab /\ eq.ba)
        /\ kind = "differ" => (a # b /\ ~eq.ab /\ ~eq.ba)

C11_Witness ==
    /\ op = "parse_defaults"
    /\ texts = <<"NUMERIC(2)", "NUMERIC(2, 0)">>
    /\ a = Numeric(2, 0)
    /\ eq.ab

\* C12: get_field_type, PhysicalSchemaField.get and MetadataSchemaField.get
\* raise an error whose message is "Type '<t>' not recognized" for a text t
\* that from_str does not accept (a truncated, lower-cased, digit-less or
\* padded rule text among them), and no field is made; for any other text
\* they return the parsed node, or the field that holds it.
C12_UnrecognizedTypeRaises ==
    op = "field_get" =>
        LET fn == args[1]
            t == args[2]
        IN  /\ kind \in {"truncated", "case", "nodigits", "padded"} => ret.raised
            /\ kind = "valid" => ~ret.raised
            /\ ret.raised <=> FromStr(t) = None
            /\ ret.raised =>
                /\ ret.error = "CompilationError"
                /\ ret.message = "Type '" \o t \o "' not recognized"
            /\ (~ret.raised /\ fn = "get_field_type") => ret.value = FromStr(t)
            /\ (~ret.raised /\ fn = "physical") =>
                ret.value = PhysicalSchemaField("field1", FromStr(t))
            /\ (~ret.raised /\ fn = "metadata") =>
                ret.value = MetadataSchemaField("field1", "key1", FromStr(t))

C12_Witness ==
    /\ op = "field_get"
    /\ args = <<"physical", "string">>
    /\ ret = Raise("CompilationError", "Type 'string' not recognized")

\* C13: schema_field_factory makes a PhysicalSchemaField for kind "physical",
\* a MetadataSchemaField for "metadata", a ComputedSchemaField for "computed",
\* each with that kind and the mapping's name, key, expression and parsed
\* type; for any other kind it raises "Unknown field kind" and makes no
\* field.
C13_FactoryDispatch ==
    op = "factory" =>
        LET k == Get(args, "kind")
            typed == Has(args, "type") /\ FromStr(Get(args, "type")) # None
        IN  /\ (k = "physical" /\ typed) =>
                ret = Return(PhysicalSchemaField(Get(args, "name"),
                                                 FromStr(Get(args, "type"))))
            /\ (k = "metadata" /\ Has(args, "key") /\ typed) =>
                ret = Return(MetadataSchemaField(Get(args, "name"), Get(args, "key"),
                                                 FromStr(Get(args, "type"))))
            /\ (k = "computed" /\ Has(args, "expression")) =>
                ret = Return(ComputedSchemaField(Get(args, "name"),
                                                 Get(args, "expression")))
            /\ ~ret.raised => ret.value.kind = k
            /\ k \notin {"physical", "metadata", "computed"} =>
                ret = Raise("ValueError", "Unknown field kind: " \o k)

C13_Witness ==
    /\ op = "factory"
    /\ Get(args, "kind") = "virtual"
    /\ ret.raised
    /\ ret.error = "ValueError"

\* C14: from_json of a mapping that lacks "fields", "watermarks" or
\* "constraints" (entries that are there being well formed) succeeds with an
\* empty field list, an empty watermark list, an empty primary key for the
\* key that is missing.
WellFormedJson(json) ==
    /\ Has(json, "fields") =>
        \A i \in 1..Len(Get(json, "fields")) :
            ~SchemaFieldFactory(Get(json, "fields")[i]).raised
    /\ Has(json, "watermarks") =>
        \A i \in 1..Len(Get(json, "watermarks")) :
            Has(Get(json, "watermarks")[i], "name")
            /\ Has(Get(json, "watermarks")[i], "expression")
    /\ Has(json, "constraints") => Has(Get(json, "constraints"), "primary_key")

C14_MissingKeysEmpty ==
    (op = "from_json" /\ WellFormedJson(args)) =>
        /\ ~ret.raised
        /\ ~Has(args, "fields") => ret.value.fields = <<>>
        /\ ~Has(args, "watermarks") => ret.value.watermarks = <<>>
        /\ ~Has(args, "constraints") => ret.value.constraints.primary_key = List(<<>>)

\* C15: a schema of physical, metadata and computed fields, watermarks and a
\* primary-key list is equal to from_json of its to_dict().
C15_SchemaRoundTrip ==
    op = "schema_round_trip" => (~ret.raised /\ eq.ab /\ eq.ba)

\* q holds the elements of p, each as often, in another order
Reordered(p, q) ==
    /\ p # q
    /\ Len(p) = Len(q)
    /\ \A i \in 1..Len(p) :
        Cardinality({j \in 1..Len(p) : p[j] = p[i]})
            = Cardinality({j \in 1..Len(q) : q[j] = p[i]})

\* C16: the hash of a schema is the hash of the JSON text of its to_dict(),
\* where a field is written with the keys name, kind, then its own, and its
\* type as display text; two schemas are equal exactly when these texts are
\* the same, so schemas that hold the same fields or watermarks in another
\* order are unequal.
C16_SerializedEquality ==
    op = "schema_compare" =>
        LET x == args[1]
            y == args[2]
        IN  /\ hashes = <<StrHash(texts[1]), StrHash(texts[2])>>
            /\ Len(x.fields) > 0 =>
                StartsWith(texts[1],
                    "{\"fields\": [{\"name\": \"" \o x.fields[1].name
                    \o "\", \"kind\": \"physical\", \"type\": \""
                    \o Repr(x.fields[1].type) \o "\"}")
            /\ eq.ab <=> texts[1] = texts[2]
            /\ eq.ba <=> texts[1] = texts[2]
            /\ (Reordered(x.fields, y.fields) \/ Reordered(x.watermarks, y.watermarks))
                    => (~eq.ab /\ ~eq.ba)

C16_Witness ==
    /\ op = "schema_compare"
    /\ texts[1] = "{\"fields\": [{\"name\": \"field1\", \"kind\": \"physical\", "
                  \o "\"type\": \"STRING\"}, {\"name\": \"field2\", \"kind\": "
                  \o "\"physical\", \"type\": \"DECIMAL(10, 0)\"}], \"watermarks\": [], "
                  \o "\"constraints\": {\"primary_key\": [\"field1\"]}}"
    /\ Reordered(args[1].fields, args[2].fields)
    /\ args[1].watermarks = args[2].watermarks
    /\ args[1].constraints = args[2].constraints
    /\ ~eq.ab

\* every type text of the schema is one from_str accepts
AllRecognized(json) == \A i \in 1..Len(json) : FromStr(json[i].type) # None

\* the service holds a pipeline and a stream under the name, with the SQL and
\* the watermark of the call
SameDefinition ==
    /\ args.pipeline # None
    /\ args.stream # None
    /\ args.pipeline.sql = "INSERT INTO " \o args.relation \o " " \o args.sql
    /\ args.stream.watermark = args.watermark

\* the types of the two schemas, parsed, and the names are equal one by one
SameSchema ==
    /\ Len(args.stream.schema) = Len(args.fields)
    /\ \A i \in 1..Len(args.fields) :
        /\ args.stream.schema[i].name = args.fields[i].name
        /\ Eq(FromStr(args.stream.schema[i].type), FromStr(args.fields[i].type))

\* C17: when every type text parses, has_changed returns false if a pipeline
\* and a stream of the name exist, the stored SQL is the local SQL, the
\* stored watermark is the local one and the remote schema equals the local
\* one; in every other case it returns true.
C17_ReconciliationDecision ==
    (/\ op = "has_changed"
     /\ AllRecognized(args.fields)
     /\ args.stream # None => AllRecognized(args.stream.schema)) =>
        /\ ~ret.raised
        /\ ret.value = ~(SameDefinition /\ SameSchema)

C17_Witness ==
    /\ op = "has_changed"
    /\ SameDefinition
    /\ args.fields = <<[name |-> "y", type |-> "INT"]>>
    /\ args.stream.schema = <<[name |-> "y", type |-> "BIGINT"]>>
    /\ ret = Return(TRUE)

\* the first type text of the schema that from_str does not accept
FirstUnrecognized(json) ==
    json[CHOOSE i \in 1..Len(json) :
            /\ FromStr(json[i].type) = None
            /\ \A j \in 1..(i - 1) : FromStr(json[j].type) # None].type

\* the error names the text
Names(message, text) ==
    EndsWith(message, "Type '" \o text \o "' not recognized")

\* C18 as stated: whenever a field of the local schema or of the remote
\* stream's schema has a type text from_str does not accept, has_changed
\* raises, whatever the comparisons before would give.
C18_AlwaysFailFast ==
    (/\ op = "has_changed"
     /\ \/ ~AllRecognized(args.fields)
        \/ (args.stream # None /\ ~AllRecognized(args.stream.schema))) =>
        ret.raised

\* C18, amended: has_changed raises, naming the first text not accepted,
\* when the local schema has one; when only the remote schema has one it
\* raises likewise if a pipeline and a stream exist with the SQL and the
\* watermark of the call, and returns true otherwise.
C18_FailFastWhenReached ==
    op = "has_changed" =>
        /\ ~AllRecognized(args.fields) =>
            (ret.raised /\ Names(ret.message, FirstUnrecognized(args.fields)))
        /\ (/\ AllRecognized(args.fields)
            /\ args.stream # None
            /\ ~AllRecognized(args.stream.schema)) =>
                IF SameDefinition
                THEN ret.raised /\ Names(ret.message, FirstUnrecognized(args.stream.schema))
                ELSE ret = Return(TRUE)

C18_Witness ==
    /\ op = "has_changed"
    /\ SameDefinition
    /\ args.fields = <<[name |-> "y", type |-> "INT"]>>
    /\ args.stream.schema = <<[name |-> "y", type |-> "INT"], [name |-> "z", type |-> "string"]>>
    /\ ret.raised
    /\ Names(ret.message, "string")

RECURSIVE Sum(_)
Sum(q) == IF q = <<>> THEN 0 ELSE q[1] + Sum(Tail(q))

RECURSIVE Pow2(_)
Pow2(n) == IF n = 0 THEN 1 ELSE 2 * Pow2(n - 1)

\* C19: for a timeout of whole milliseconds, exponential_backoff yields
\* before its first sleep and once after every sleep but the last; the sleeps
\* add up to total_time, never more than the timeout; the yielded times are
\* strictly increasing; after a sleep the generator is finished exactly when
\* less than a millisecond of the budget is left, and it has then slept at
\* most once more than the doubling backoff fits into the timeout.
C19_BoundedBudget ==
    op = "backoff" =>
        /\ Len(yields) >= 1 /\ yields[1] = 0
        /\ Len(sleeps) = IF pc = "done" THEN Len(yields) ELSE Len(yields) - 1
        /\ Sum(sleeps) = total_time
        /\ total_time <= args.timeout
        /\ \A i \in 1..(Len(yields) - 1) : yields[i] < yields[i + 1]
        /\ Len(sleeps) >= 1 => (pc = "done" <=> args.timeout - total_time < 1)
        /\ Len(sleeps) >= 2 => 1000 * (Pow2(Len(sleeps) - 1) - 1) < args.timeout
        /\ pc = "yield" => ENABLED BackoffResume

C19_Witness ==
    /\ op = "backoff"
    /\ args.timeout = 3500
    /\ pc = "done"
    /\ yields = <<0, 1500>>
    /\ sleeps = <<1500, 2000>>

\* C20: the k-th sleep (k = 0, 1, 2, ...) is the lesser of 2^k seconds plus
\* the jitter and what is left of the budget, and the jitter is less than one
\* second.
C20_IntervalShape ==
    op = "backoff" =>
        \A k \in 0..(Len(sleeps) - 1) :
            /\ staggers[k + 1] >= 0
            /\ staggers[k + 1] < 1000
            /\ sleeps[k + 1] = Min(1000 * Pow2(k) + staggers[k + 1],
                                   args.timeout - Sum(SubSeq(sleeps, 1, k)))

\* what the poll responses so far make of the result, by the rule of the
\* stream type
RECURSIVE Concatenated(_)
Concatenated(q) ==
    IF q = <<>> THEN <<>> ELSE q[1].response.results \o Concatenated(Tail(q))

LastImage ==
    LET carrying == {i \in 1..Len(polls) : polls[i].response.results # <<>>}
        latest == CHOOSE i \in carrying : \A j \in carrying : j <= i
        results == polls[latest].response.results
        after == Get(results[Len(results)], "after")
    IN  IF carrying = {} \/ after = <<>> THEN <<>> ELSE <<after>>

Expected == IF append_stream THEN Concatenated(polls) ELSE LastImage

C21_State ==
    op = "execute" =>
        /\ cursor \in {"resume", "returned"} => Len(polls) >= 1
        /\ \A i \in 1..Len(polls) :
            /\ polls[i].id = args.created.id
            /\ polls[i].token = IF i = 1 THEN args.created.next_token
                                 ELSE polls[i - 1].response.next_token
        /\ \A i \in 1..(Len(polls) - 1) : polls[i].response.next_token # <<>>
        /\ Len(polls) <= Len(yields)
        /\ pc = "done" => cursor = "returned"
        /\ cursor = "returned" =>
                \/ pc = "done"
                \/ polls[Len(polls)].response.next_token = <<>>
        /\ cursor \in {"loop", "resume"} => ENABLED (ExecutePoll \/ ExecuteNext)

C21_Step ==
    (op = "execute" /\ polls' # polls) =>
        /\ pc = "yield"
        /\ cursor = "loop"
        /\ polls # <<>> => polls[Len(polls)].response.next_token # <<>>
        /\ Len(polls') = Len(polls) + 1

\* C21: execute polls run_preview at least once; every poll carries the
\* preview's id and the next_token of the response before it (the first:
\* of create_preview's response); a poll is made only while the generator
\* stands at a yield and the last response had a next_token, so none
\* follows a response without next_token or the end of the backoff budget;
\* and execute returns exactly for one of these two reasons.
C21_PollingStops == []C21_State /\ [][C21_Step]_vars

C21_Witness ==
    /\ op = "execute"
    /\ cursor = "returned"
    /\ pc = "done"
    /\ Len(polls) = 3
    /\ polls[2].token = <<"token1">>
    /\ polls[3].token = <<"token2">>
    /\ polls[3].response.next_token = <<"token1">>

\* C22: while execute polls, last_result is what the responses so far make
\* of it: for an APPEND stream their results one after the other in poll
\* order, otherwise the "after" image of the last change of the latest
\* response that carried results, or nothing when that image is empty or no
\* response carried results; at the return it is the same unless empty.
C22_Accumulation ==
    op = "execute" =>
        /\ cursor \in {"loop", "resume"} => last_result = List(Expected)
        /\ (cursor = "returned" /\ fetched = <<>> /\ Expected # <<>>) =>
                last_result = List(Expected)

C22_Witness ==
    /\ op = "execute"
    /\ ~append_stream
    /\ cursor = "returned"
    /\ fetched = <<>>
    /\ Len(polls) = 3
    /\ polls[1].response.results = <<Change(<<>>, Row1)>>
    /\ polls[2].response.results = <<Change(Row1, <<>>), Change(<<>>, Row2)>>
    /\ polls[3].response.results = <<>>
    /\ last_result = List(<<Row2>>)

\* C23: when execute has returned, last_result is a list that is not
\* empty, and it is the one placeholder row when the polls collected
\* nothing; execute(fetch=False) of the connection manager makes no poll and
\* returns the placeholder row under its three column names.
C23_NeverEmpty ==
    /\ (op = "execute" /\ cursor = "returned" /\ fetched = <<>>) =>
            /\ last_result # None
            /\ last_result.items # <<>>
            /\ Expected = <<>> => last_result = List(<<FakeResult>>)
    /\ op = "execute_no_fetch" =>
            /\ polls = <<>>
            /\ ret.value.rows = <<<<0, FALSE, FALSE>>>>
            /\ ret.value.column_names =
                   <<<<"failures">>, <<"should_warn">>, <<"should_error">>>>

C23_Witness ==
    /\ op = "execute"
    /\ cursor = "returned"
    /\ fetched = <<>>
    /\ Len(polls) = 2
    /\ \A i \in 1..2 : polls[i].response.results = <<>>
    /\ last_result = List(<<FakeResult>>)

\* C24: the first fetchall after execute returns one tuple for each row of
\* last_result, in order, the i-th tuple being the values of the i-th row,
\* and the fetchall after it returns the empty sequence.
C24_FetchallTuples ==
    (op = "execute" /\ fetched # <<>>) =>
        LET rows == Seeded(List(Expected)).items
        IN  /\ Len(fetched[1]) = Len(rows)
            /\ \A i \in 1..Len(rows) :
                /\ Len(fetched[1][i]) = Len(rows[i])
                /\ fetched[1][i] = Values(rows[i])
            /\ Len(fetched) = 2 => fetched[2] = <<>>

\* the pipelines drop_relation met that stand in the way of deleting the
\* stream: the one of its name and those that read from it
Dependants(stream) ==
    {i \in 1..Len(args.pipelines) :
        \/ args.pipelines[i].name = stream.name
        \/ \E k \in 1..Len(args.pipelines[i].sources) :
                args.pipelines[i].sources[k] = stream.id}

Before(first, second) ==
    \A i \in 1..Len(requests) :
        requests[i] = second => \E j \in 1..(i - 1) : requests[j] = first

\* C25: while drop_relation and its recursive calls run and after them, a
\* stream that has been deleted has no pipeline of its name and no pipeline
\* reading from it left at the service; the delete_stream request comes
\* after the delete_pipeline requests for all of these; and a pipeline that
\* was running, or was to run, is deactivated before it is deleted, and no
\* other is deactivated.
C25_DeletionOrder ==
    op = "drop_relation" =>
        /\ \A n \in 1..Len(args.streams) :
            LET stream == args.streams[n]
            IN  /\ ~Held(streams, stream.id) =>
                    \A i \in Dependants(stream) : ~Held(pipelines, args.pipelines[i].id)
                /\ \A i \in Dependants(stream) :
                        Before(Request("delete_pipeline", args.pipelines[i].id),
                               Request("delete_stream", stream.id))
        /\ \A i \in 1..Len(args.pipelines) :
            LET pipeline == args.pipelines[i]
            IN  /\ ~Held(pipelines, pipeline.id) <=>
                        \E j \in 1..Len(requests) :
                            requests[j] = Request("delete_pipeline", pipeline.id)
                /\ Running(pipeline) =>
                        Before(Request("deactivate_pipeline", pipeline.id),
                               Request("delete_pipeline", pipeline.id))
                /\ ~Running(pipeline) =>
                        \A j \in 1..Len(requests) :
                            requests[j] # Request("deactivate_pipeline", pipeline.id)

C25_Witness ==
    /\ op = "drop_relation"
    /\ args.relation = Relation(<<"a">>, <<"table">>)
    /\ stack = <<>>
    /\ ~ret.raised
    /\ Len(args.pipelines) = 3
    /\ args.pipelines[2].name = "c"
    /\ args.pipelines[2].sources = <<"s2">>
    /\ streams = <<>>
    /\ pipelines = <<>>
    /\ requests[Len(requests)] = Request("delete_stream", "s1")
    /\ \E i \in 1..Len(requests) : requests[i] = Request("deactivate_pipeline", "p2")

\* C26: no request of drop_relation and its recursive calls names a
\* pipeline that an earlier request of the same drop has deleted, and the
\* drop does not end in ResourceNotFound.
C26_NoStaleRequest ==
    op = "drop_relation" =>
        /\ \A i \in 1..Len(requests) :
                requests[i].method # "delete_stream" =>
                    \A j \in 1..(i - 1) :
                        requests[j] # Request("delete_pipeline", requests[i].id)
        /\ ~(ret.raised /\ ret.error = "ResourceNotFound")

\* C27: when rename_relation raises, the relation cache, the streams and
\* the pipelines of the service are as they were before the call; and the
\* cache is only changed when the stream has been renamed at the service.
C27_AllOrNothing ==
    op = "rename_relation" =>
        /\ ret.raised =>
            /\ cache = args.cache
            /\ streams = args.streams
            /\ pipelines = args.pipelines
        /\ cache # args.cache => streams # args.streams

Created(items, held) == \E i \in 1..Len(items) : ~Held(held, items[i].id)

\* C28: create_pipeline is requested only after create_stream for the same
\* name, and activate_pipeline only after create_pipeline; a pipeline the
\* call has created stands beside a stream of its name that the call has
\* created; and when the planned schema is empty, one of its types does
\* not parse, or a stream of the relation's name exists already, create_table
\* raises, makes no creating request and leaves the service as it was, as
\* it does for every error it raises itself.
C28_CreationOrder ==
    op = "create_table" =>
        /\ \A i \in 1..Len(requests) :
            /\ requests[i].method = "create_pipeline" =>
                    \E j \in 1..(i - 1) : /\ requests[j].method = "create_stream"
                                          /\ requests[j].id = requests[i].id
            /\ requests[i].method = "activate_pipeline" =>
                    /\ \E j \in 1..(i - 1) : requests[j].method = "create_pipeline"
                    /\ Held(pipelines, requests[i].id)
        /\ \A i \in 1..Len(pipelines) :
                \E n \in 1..Len(streams) :
                    /\ streams[n].name = pipelines[i].name
                    /\ ~Held(args.streams, streams[n].id)
        /\ \A i \in 1..Len(pipelines) :
                pipelines[i].target_state = "RUNNING" =>
                    requests[Len(requests)] = Request("activate_pipeline", pipelines[i].id)
        /\ (args.relation.identifier # <<>> /\
            (\/ args.fields = <<>>
             \/ ~AllRecognized(args.fields)
             \/ GetId(args.streams, Render(args.relation)) # <<>>)) =>
                /\ ret.raised
                /\ requests = <<>>
                /\ streams = args.streams
                /\ pipelines = args.pipelines
        /\ (ret.raised /\ ret.error \in {"CompilationError", "ParsingError", "DatabaseError"}) =>
                /\ requests = <<>>
                /\ streams = args.streams
                /\ pipelines = args.pipelines

C28_Witness ==
    /\ op = "create_table"
    /\ stack = <<>>
    /\ ~ret.raised
    /\ args.primary_key = <<"y">>
    /\ Len(requests) = 3
    /\ requests[1].method = "create_stream"
    /\ requests[1].id = "d"
    /\ Len(requests[1].schema) = 2
    /\ requests[1].schema[1] = SchemaField("y", PrimaryKey(Plain("Int")))
    /\ requests[1].schema[2].type.cls = "Numeric"
    /\ requests[2] = Request("create_pipeline", "d")
    /\ requests[3] = Request("activate_pipeline", "p9")
    /\ streams = <<Stream("s1", "a"), Stream("s9", "d")>>
    /\ Len(pipelines) = 1
    /\ pipelines[1].target_state = "RUNNING"

\* C29: on the nodes from_str returns and on constructed nodes, == is an
\* equivalence relation: every node equals itself, x == y and y == x give
\* the same answer, and x == y with y == z gives x == z.
C29_Equivalence ==
    /\ Compared => /\ eq.ab = eq.ba
                   /\ (a = b) => eq.ab
    /\ op = "parse_triple" =>
          /\ eq.aa
          /\ eq.ab = eq.ba
          /\ eq.bc = eq.cb
          /\ eq.ac = eq.ca
          /\ (eq.ab /\ eq.bc) => eq.ac

C29_Witness ==
    /\ op = "parse_triple"
    /\ texts = <<"DECIMAL", "DEC(10, 0)", "NUMERIC">>
    /\ a.cls = "Decimal" /\ b.cls = "Dec" /\ found.cls = "Numeric"
    /\ eq.ab /\ eq.bc /\ eq.ac /\ eq.ca

\* C30: two schema fields are equal exactly when their to_dict() mappings
\* are equal, and two schemas with the same watermarks and constraints and
\* with field lists of one length that are equal field by field are equal.
C30_EqualityAgrees ==
    op = "schema_compare" =>
        LET x == args[1]
            y == args[2]
        IN  /\ \A i \in 1..Len(x.fields), j \in 1..Len(y.fields) :
                    FieldEq(x.fields[i], y.fields[j])
                        <=> SchemaFieldToDict(x.fields[i]) = SchemaFieldToDict(y.fields[j])
            /\ (/\ x.watermarks = y.watermarks
                /\ x.constraints = y.constraints
                /\ Len(x.fields) = Len(y.fields)
                /\ \A i \in 1..Len(x.fields) : FieldEq(x.fields[i], y.fields[i]))
                    => eq.ab

====
